---- MODULE Spec2Model ----
(***************************************************************************)
(* A model of the SGA archive reader of relic-tool: the lazy file data of  *)
(* relic/sga/_abc.py, the shared helpers of relic/sga/_serializers.py and  *)
(* the version drivers of relic/sga/v2, v5, v7, v9.                        *)
(*                                                                         *)
(* Python's Optional[T] is a sequence of at most one element: None is <<>> *)
(* and a value x is <<x>>.  A byte string is a sequence over Byte.         *)
(***************************************************************************)
EXTENDS Integers, Sequences, FiniteSets, TLC

\* ------------------------------------------------------------------ bounds

\* Length of the backing stream of the file-level specifications.
StreamLen == 3
\* Largest data_pos of a file definition.
MaxDataPos == 1
\* Largest length_in_archive (packed size) of a file definition.
MaxPacked == 3
\* Largest length_on_disk (unpacked size) of a file definition.
MaxUnpacked == 2

Byte == 0..1
None == <<>>
Some(x) == <<x>>

\* The element of a one-element set: The({F(x) : x \in {e}}) is F(e), with e
\* worked out once and named x.
The(S) == CHOOSE x \in S : TRUE

Min(a, b) == IF a < b THEN a ELSE b
Max(a, b) == IF a < b THEN b ELSE a

\* All byte strings of length exactly n / at most n.
RECURSIVE BytesOfLen(_)
BytesOfLen(n) ==
    IF n = 0 THEN {<<>>}
    ELSE {<<b>> \o s : b \in Byte, s \in BytesOfLen(n - 1)}

\* ------------------------------------------------------------------ zlib
\* The DEFLATE wrapper used by _abc.py, scaled to Byte: a header byte, the
\* payload delta-coded (each byte as its difference to the one before it),
\* and a one-byte checksum of the payload.  Inflating checks the framing and
\* the checksum and fails (zlib.error) on anything else.

ZlibHeader == 1
ByteMod == Cardinality(Byte)

RECURSIVE ByteSum(_)
ByteSum(b) == IF b = <<>> THEN 0 ELSE (Head(b) + ByteSum(Tail(b))) % ByteMod

\* delta coding: out[i] = b[i] - b[i-1] (mod), with b[0] = 0
DeltaEncode(b) ==
    [i \in 1..Len(b) |->
        ((b[i] - (IF i = 1 THEN 0 ELSE b[i - 1])) + ByteMod) % ByteMod]

RECURSIVE DeltaDecodeFrom(_, _)
DeltaDecodeFrom(prev, d) ==
    IF d = <<>> THEN <<>>
    ELSE LET v == (prev + Head(d)) % ByteMod
         IN <<v>> \o DeltaDecodeFrom(v, Tail(d))

zlib_compress(b) == <<ZlibHeader>> \o DeltaEncode(b) \o <<ByteSum(b)>>

\* [ok, val]: ok is FALSE where zlib.decompress raises zlib.error
zlib_decompress(x) ==
    IF Len(x) < 2 \/ x[1] # ZlibHeader
    THEN [ok |-> FALSE, val |-> <<>>]
    ELSE LET body == SubSeq(x, 2, Len(x) - 1)
             val == DeltaDecodeFrom(0, body)
         IN IF ByteSum(val) = x[Len(x)]
            THEN [ok |-> TRUE, val |-> val]
            ELSE [ok |-> FALSE, val |-> <<>>]

\* ---------------------------------------------------------------- stream
\* BinaryIO: read(n) returns the bytes from the cursor, short at the end of
\* the stream, and advances the cursor by what it returned.

stream_read(cont, cur, n) ==
    IF cur >= Len(cont) THEN <<>>
    ELSE SubSeq(cont, cur + 1, Min(cur + n, Len(cont)))

\* ---------------------------------------------------------- StorageType

STORE == "STORE"
BUFFER_COMPRESS == "BUFFER_COMPRESS"
STREAM_COMPRESS == "STREAM_COMPRESS"
StorageType == {STORE, BUFFER_COMPRESS, STREAM_COMPRESS}

\* ----------------------------------------------------------- exceptions

NoError == "none"
DecompressedSizeMismatch == "DecompressedSizeMismatch"
ZlibError == "zlib.error"
TypeError == "TypeError"
KeyError == "KeyError"
LazyInfoMissing == "Exception: failed to create lazy info"

\* --------------------------------------------------------- FileLazyInfo

FileLazyInfo(jump_to, packed_size, unpacked_size, decompress) ==
    [jump_to |-> jump_to, packed_size |-> packed_size,
     unpacked_size |-> unpacked_size, decompress |-> decompress]

\* FileLazyInfo.read without its seek to jump_to: it reads at the cursor.
FileLazyInfo_read_no_seek(self, decompress_arg, cont, cur) ==
    LET decompress == IF decompress_arg = None THEN self.decompress
                      ELSE decompress_arg[1]
        buffer == stream_read(cont, cur, self.packed_size)
        after_read == cur + Len(buffer)
    IN IF decompress /\ self.packed_size # self.unpacked_size
       THEN LET z == zlib_decompress(buffer)
            IN IF ~z.ok
               THEN [raised |-> ZlibError, val |-> <<>>, cursor |-> after_read]
               ELSE IF Len(z.val) # self.unpacked_size
               THEN [raised |-> DecompressedSizeMismatch, val |-> <<>>,
                     cursor |-> after_read]
               ELSE [raised |-> NoError, val |-> z.val, cursor |-> cur]
       ELSE [raised |-> NoError, val |-> buffer, cursor |-> cur]

\* FileLazyInfo.read inflating whenever decompress is set, equal sizes or not.
FileLazyInfo_read_always_inflate(self, decompress_arg, cont, cur) ==
    LET decompress == IF decompress_arg = None THEN self.decompress
                      ELSE decompress_arg[1]
        buffer == stream_read(cont, self.jump_to, self.packed_size)
        after_read == self.jump_to + Len(buffer)
    IN IF decompress
       THEN LET z == zlib_decompress(buffer)
            IN IF ~z.ok
               THEN [raised |-> ZlibError, val |-> <<>>, cursor |-> after_read]
               ELSE IF Len(z.val) # self.unpacked_size
               THEN [raised |-> DecompressedSizeMismatch, val |-> <<>>,
                     cursor |-> after_read]
               ELSE [raised |-> NoError, val |-> z.val, cursor |-> cur]
       ELSE [raised |-> NoError, val |-> buffer, cursor |-> cur]

\* FileLazyInfo.read seeking jump_to bytes on from the cursor instead of to
\* jump_to.
FileLazyInfo_read_seek_cur(self, decompress_arg, cont, cur) ==
    LET decompress == IF decompress_arg = None THEN self.decompress
                      ELSE decompress_arg[1]
        buffer == stream_read(cont, cur + self.jump_to, self.packed_size)
        after_read == cur + self.jump_to + Len(buffer)
    IN IF decompress /\ self.packed_size # self.unpacked_size
       THEN LET z == zlib_decompress(buffer)
            IN IF ~z.ok
               THEN [raised |-> ZlibError, val |-> <<>>, cursor |-> after_read]
               ELSE IF Len(z.val) # self.unpacked_size
               THEN [raised |-> DecompressedSizeMismatch, val |-> <<>>,
                     cursor |-> after_read]
               ELSE [raised |-> NoError, val |-> z.val, cursor |-> cur]
       ELSE [raised |-> NoError, val |-> buffer, cursor |-> cur]

\* FileLazyInfo.read: [raised, val, cursor].  The cursor is put back only on
\* the path that returns.
FileLazyInfo_read(self, decompress_arg, cont, cur) ==
    LET decompress == IF decompress_arg = None THEN self.decompress
                      ELSE decompress_arg[1]
        jump_back == cur
        buffer == stream_read(cont, self.jump_to, self.packed_size)
        after_read == self.jump_to + Len(buffer)
    IN IF decompress /\ self.packed_size # self.unpacked_size
       THEN LET z == zlib_decompress(buffer)
            IN IF ~z.ok
               THEN [raised |-> ZlibError, val |-> <<>>, cursor |-> after_read]
               ELSE IF Len(z.val) # self.unpacked_size
               THEN [raised |-> DecompressedSizeMismatch, val |-> <<>>,
                     cursor |-> after_read]
               ELSE [raised |-> NoError, val |-> z.val, cursor |-> jump_back]
       ELSE [raised |-> NoError, val |-> buffer, cursor |-> jump_back]

\* ----------------------------------------------------------------- File

File(name, data, storage_type, is_compressed, metadata, lazy_info) ==
    [name |-> name, data |-> data, storage_type |-> storage_type,
     is_compressed |-> is_compressed, metadata |-> metadata,
     parent |-> None, lazy_info |-> lazy_info]

\* File.data returning what it read without keeping it.
File_data_uncached(self, cont, cur) ==
    IF self.data = None
    THEN IF self.lazy_info = None
         THEN [raised |-> TypeError, val |-> <<>>, file |-> self,
               cursor |-> cur, touched |-> FALSE]
         ELSE LET r == FileLazyInfo_read(self.lazy_info[1], None, cont, cur)
              IN [raised |-> r.raised, val |-> r.val, file |-> self,
                  cursor |-> r.cursor, touched |-> TRUE]
    ELSE [raised |-> NoError, val |-> self.data[1], file |-> self,
          cursor |-> cur, touched |-> FALSE]

\* File.data dropping the lazy handle before the read instead of after it.
File_data_drops_first(self, cont, cur) ==
    IF self.data = None
    THEN IF self.lazy_info = None
         THEN [raised |-> TypeError, val |-> <<>>, file |-> self,
               cursor |-> cur, touched |-> FALSE]
         ELSE LET r == FileLazyInfo_read(self.lazy_info[1], None, cont, cur)
                  dropped == [self EXCEPT !.lazy_info = None]
              IN IF r.raised # NoError
                 THEN [raised |-> r.raised, val |-> <<>>, file |-> dropped,
                       cursor |-> r.cursor, touched |-> TRUE]
                 ELSE [raised |-> NoError, val |-> r.val,
                       file |-> [dropped EXCEPT !.data = Some(r.val)],
                       cursor |-> r.cursor, touched |-> TRUE]
    ELSE [raised |-> NoError, val |-> self.data[1], file |-> self,
          cursor |-> cur, touched |-> FALSE]

\* File.data (getter): [raised, val, file, cursor, touched]; touched tells
\* whether the stream was used.
File_data(self, cont, cur) ==
    IF self.data = None
    THEN IF self.lazy_info = None
         THEN [raised |-> TypeError, val |-> <<>>, file |-> self,
               cursor |-> cur, touched |-> FALSE]
         ELSE LET r == FileLazyInfo_read(self.lazy_info[1], None, cont, cur)
              IN IF r.raised # NoError
                 THEN [raised |-> r.raised, val |-> <<>>, file |-> self,
                       cursor |-> r.cursor, touched |-> TRUE]
                 ELSE [raised |-> NoError, val |-> r.val,
                       file |-> [self EXCEPT !.data = Some(r.val),
                                             !.lazy_info = None],
                       cursor |-> r.cursor, touched |-> TRUE]
    ELSE [raised |-> NoError, val |-> self.data[1], file |-> self,
          cursor |-> cur, touched |-> FALSE]

\* File.data (setter)
File_set_data(self, value) == [self EXCEPT !.data = Some(value)]

\* File.compress: [raised, file, cursor, touched]
File_compress(self, cont, cur) ==
    LET d == File_data(self, cont, cur)
    IN IF d.raised # NoError
       THEN [raised |-> d.raised, file |-> d.file, cursor |-> d.cursor,
             touched |-> d.touched]
       ELSE IF ~d.file.is_compressed
       THEN [raised |-> NoError,
             file |-> [File_set_data(d.file, zlib_compress(d.val))
                          EXCEPT !.is_compressed = TRUE],
             cursor |-> d.cursor, touched |-> d.touched]
       ELSE [raised |-> NoError, file |-> d.file, cursor |-> d.cursor,
             touched |-> d.touched]

\* File.decompress leaving the flag set.
File_decompress_keeps_flag(self, cont, cur) ==
    IF self.is_compressed
    THEN LET d == File_data(self, cont, cur)
         IN IF d.raised # NoError
            THEN [raised |-> d.raised, file |-> d.file, cursor |-> d.cursor,
                  touched |-> d.touched]
            ELSE LET z == zlib_decompress(d.val)
                 IN IF ~z.ok
                    THEN [raised |-> ZlibError, file |-> d.file,
                          cursor |-> d.cursor, touched |-> d.touched]
                    ELSE [raised |-> NoError,
                          file |-> File_set_data(d.file, z.val),
                          cursor |-> d.cursor, touched |-> d.touched]
    ELSE [raised |-> NoError, file |-> self, cursor |-> cur,
          touched |-> FALSE]

\* File.decompress: [raised, file, cursor, touched]
File_decompress(self, cont, cur) ==
    IF self.is_compressed
    THEN LET d == File_data(self, cont, cur)
         IN IF d.raised # NoError
            THEN [raised |-> d.raised, file |-> d.file, cursor |-> d.cursor,
                  touched |-> d.touched]
            ELSE LET z == zlib_decompress(d.val)
                 IN IF ~z.ok
                    THEN [raised |-> ZlibError, file |-> d.file,
                          cursor |-> d.cursor, touched |-> d.touched]
                    ELSE [raised |-> NoError,
                          file |-> [File_set_data(d.file, z.val)
                                       EXCEPT !.is_compressed = FALSE],
                          cursor |-> d.cursor, touched |-> d.touched]
    ELSE [raised |-> NoError, file |-> self, cursor |-> cur,
          touched |-> FALSE]

\* File.open(read_only) as a context manager whose body leaves written in the
\* stream (None: the body writes nothing): [raised, file, cursor, touched]
File_open(self, read_only, written, cont, cur) ==
    LET d == File_data(self, cont, cur)
        stream == IF written = None THEN d.val ELSE written[1]
    IN IF d.raised # NoError
       THEN [raised |-> d.raised, file |-> d.file, cursor |-> d.cursor,
             touched |-> d.touched]
       ELSE [raised |-> NoError,
             file |-> IF read_only THEN d.file
                      ELSE File_set_data(d.file, stream),
             cursor |-> d.cursor, touched |-> d.touched]

\* ------------------------------------------------------- file definitions

FileDefABC(name_pos, data_pos, length_on_disk, length_in_archive, storage_type) ==
    [name_pos |-> name_pos, data_pos |-> data_pos,
     length_on_disk |-> length_on_disk,
     length_in_archive |-> length_in_archive, storage_type |-> storage_type]

\* build_file_meta of the versions: None for V2, FileMetadata(modified,
\* verification) for V5, with crc and hash_pos for V7 and V9.
build_file_meta(file_def) ==
    IF "crc" \in DOMAIN file_def
    THEN Some([modified |-> file_def.modified,
               verification |-> file_def.verification, crc |-> file_def.crc,
               hash_pos |-> file_def.hash_pos])
    ELSE IF "modified" \in DOMAIN file_def
    THEN Some([modified |-> file_def.modified,
               verification |-> file_def.verification])
    ELSE None

\* Files whose missing names are replaced by the empty name, with no error.
assemble_files_substituted(file_defs, names, data_pos, decompress) ==
    [raised |-> NoError,
     files |-> [k \in 1..Len(file_defs) |->
                  File(IF file_defs[k].name_pos \in DOMAIN names
                       THEN names[file_defs[k].name_pos] ELSE "",
                       None, file_defs[k].storage_type,
                       file_defs[k].storage_type # STORE,
                       build_file_meta(file_defs[k]),
                       Some(FileLazyInfo(data_pos + file_defs[k].data_pos,
                                         file_defs[k].length_in_archive,
                                         file_defs[k].length_on_disk,
                                         decompress)))]]

\* assemble_files: [raised, files].  names is a function from name-table
\* offsets to strings; a name_pos outside its domain is a KeyError.
RECURSIVE assemble_files(_, _, _, _)
assemble_files(file_defs, names, data_pos, decompress) ==
    IF file_defs = <<>> THEN [raised |-> NoError, files |-> <<>>]
    ELSE LET file_def == Head(file_defs)
         IN IF file_def.name_pos \notin DOMAIN names
            THEN [raised |-> KeyError, files |-> <<>>]
            ELSE LET lazy_info == FileLazyInfo(data_pos + file_def.data_pos,
                                               file_def.length_in_archive,
                                               file_def.length_on_disk,
                                               decompress)
                     file_compressed == file_def.storage_type # STORE
                     file == File(names[file_def.name_pos], None,
                                  file_def.storage_type, file_compressed,
                                  build_file_meta(file_def), Some(lazy_info))
                     rest == assemble_files(Tail(file_defs), names, data_pos,
                                            decompress)
                 IN IF rest.raised # NoError THEN rest
                    ELSE [raised |-> NoError, files |-> <<file>> \o rest.files]

\* A pass that drops every handle and reads nothing.
load_lazy_data_unloaded(fs, cont, cur) ==
    [raised |-> NoError,
     files |-> [k \in 1..Len(fs) |-> [fs[k] EXCEPT !.lazy_info = None]],
     cursor |-> cur]

\* load_lazy_data: [raised, files, cursor]; the first read that raises ends
\* the pass.
RECURSIVE load_lazy_data(_, _, _)
load_lazy_data(fs, cont, cur) ==
    IF fs = <<>> THEN [raised |-> NoError, files |-> <<>>, cursor |-> cur]
    ELSE LET file == Head(fs)
         IN IF file.lazy_info = None
            THEN [raised |-> LazyInfoMissing, files |-> fs, cursor |-> cur]
            ELSE LET r == FileLazyInfo_read(file.lazy_info[1], None, cont, cur)
                 IN IF r.raised # NoError
                    THEN [raised |-> r.raised, files |-> fs,
                          cursor |-> r.cursor]
                    ELSE LET loaded == [File_set_data(file, r.val)
                                           EXCEPT !.lazy_info = None]
                             rest == load_lazy_data(Tail(fs), cont, r.cursor)
                         IN [raised |-> rest.raised,
                             files |-> <<loaded>> \o rest.files,
                             cursor |-> rest.cursor]

\* -------------------------------------------------------- Python lists

IndexError == "IndexError"

\* seq[a:b]: a negative index counts from the end, both are clamped.
PyClamp(i, n) == IF i < 0 THEN Max(i + n, 0) ELSE Min(i, n)
PySlice(seq, a, b) ==
    LET lo == PyClamp(a, Len(seq))
        hi == PyClamp(b, Len(seq))
    IN IF lo < hi THEN SubSeq(seq, lo + 1, hi) ELSE <<>>

\* seq[i]: [ok, at]; at is the 1-based place, ok is FALSE for an IndexError.
PyIndex(seq, i) ==
    IF i >= Len(seq) \/ i < 0 - Len(seq) THEN [ok |-> FALSE, at |-> 0]
    ELSE [ok |-> TRUE, at |-> IF i < 0 THEN i + Len(seq) + 1 ELSE i + 1]

Indices(seq) == [k \in 1..Len(seq) |-> k]

\* ------------------------------------------------------------ name table

RanOutOfData == "Exception: Ran out of data!"
NUL == 0

\* bytes.split(b"\0"): the parts between one NUL and the next
SplitNul(buffer) ==
    LET nuls == {k \in 1..Len(buffer) : buffer[k] = NUL}
        nul(j) == IF j = 0 THEN 0
                  ELSE IF j > Cardinality(nuls) THEN Len(buffer) + 1
                  ELSE CHOOSE k \in nuls :
                           Cardinality({h \in nuls : h <= k}) = j
    IN [j \in 1..(Cardinality(nuls) + 1) |->
           SubSeq(buffer, nul(j - 1) + 1, nul(j) - 1)]

\* the for loop of read_toc_names_as_count: [names, offset]
RECURSIVE EmitNames(_, _, _, _)
EmitNames(parts, available, names, offset) ==
    IF available = 0 THEN [names |-> names, offset |-> offset]
    ELSE LET name == Head(parts)
         IN EmitNames(Tail(parts), available - 1,
                      (offset :> name) @@ names, offset + Len(name) + 1)

\* the while loop of read_toc_names_as_count: [raised, names, cursor]
RECURSIVE NamesLoop(_, _, _, _, _, _, _)
NamesLoop(cont, cur, count, buffer_size, names, running_buffer, offset) ==
    IF ~(Cardinality(DOMAIN names) < count)
    THEN [raised |-> NoError, names |-> names, cursor |-> cur]
    ELSE The({
        IF Len(buffer) = 0
        THEN [raised |-> RanOutOfData, names |-> names, cursor |-> cur]
        ELSE The({
            LET cur2 == cur + Len(buffer)
                terminal_null == buffer[Len(buffer)] = NUL
                remaining == count - Cardinality(DOMAIN names)
            IN IF Len(parts) > 1
               THEN LET joined == [parts EXCEPT
                                      ![1] = running_buffer \o parts[1]]
                        running2 == IF ~terminal_null THEN joined[Len(joined)]
                                    ELSE <<>>
                        kept == SubSeq(joined, 1, Len(joined) - 1)
                        available == Min(Len(kept), remaining)
                    IN The({NamesLoop(cont, cur2, count, buffer_size, e.names,
                                      running2, e.offset) :
                            e \in {EmitNames(kept, available, names, offset)}})
               ELSE IF ~terminal_null
               THEN NamesLoop(cont, cur2, count, buffer_size, names,
                              running_buffer \o parts[1], offset + Len(buffer))
               ELSE LET available == Min(Len(parts), remaining)
                    IN The({NamesLoop(cont, cur2, count, buffer_size, e.names,
                                      running_buffer, e.offset) :
                            e \in {EmitNames(parts, available, names, offset)}})
            : parts \in {SplitNul(buffer)}})
        : buffer \in {stream_read(cont, cur, buffer_size)}})

\* The names read so far are returned when the stream runs out.
read_toc_names_keeps_short(cont, toc_info, header_pos, buffer_size) ==
    The({[r EXCEPT !.raised = NoError] :
         r \in {NamesLoop(cont, header_pos + toc_info[1], toc_info[2],
                          buffer_size, <<>>, <<>>, 0)}})

\* read_toc_names_as_count(stream, toc_info, header_pos, buffer_size)
read_toc_names_as_count(cont, toc_info, header_pos, buffer_size) ==
    NamesLoop(cont, header_pos + toc_info[1], toc_info[2], buffer_size,
              <<>>, <<>>, 0)

\* ---------------------------------------------------------- tree assembly
\* The objects of one drive are kept by their place in the drive's lists:
\* a container's files and sub_folders are sequences of places in the drive's
\* file and folder lists, a parent is <<"drive">> or <<"folder", place>>.

DriveDef(alias, name, root_folder, folder_range, file_range) ==
    [alias |-> alias, name |-> name, root_folder |-> root_folder,
     folder_range |-> folder_range, file_range |-> file_range]

FolderDef(name_pos, folder_range, file_range) ==
    [name_pos |-> name_pos, folder_range |-> folder_range,
     file_range |-> file_range]

Folder(name, sub_folders, fs, parent) ==
    [name |-> name, sub_folders |-> sub_folders, files |-> fs,
     parent |-> parent]

\* _apply_self_as_parent(collection) on the drive's lists: [folders, files]
ApplySelfAsParent(sub_folders, fs, self, folders, all_files) ==
    [folders |-> [k \in 1..Len(folders) |->
                    IF \E j \in 1..Len(sub_folders) : sub_folders[j] = k
                    THEN [folders[k] EXCEPT !.parent = Some(self)]
                    ELSE folders[k]],
     files |-> [k \in 1..Len(all_files) |->
                    IF \E j \in 1..Len(fs) : fs[j] = k
                    THEN [all_files[k] EXCEPT !.parent = Some(self)]
                    ELSE all_files[k]]]

\* the last loop of assemble_folders, from folder k on
RECURSIVE ApplyFolderParents(_, _, _)
ApplyFolderParents(k, folders, all_files) ==
    IF k > Len(folders) THEN [folders |-> folders, files |-> all_files]
    ELSE The({ApplyFolderParents(k + 1, r.folders, r.files) :
              r \in {ApplySelfAsParent(folders[k].sub_folders, folders[k].files,
                                       <<"folder", k>>, folders, all_files)}})

\* Folders whose slices are taken at the global indices, not rebased to the
\* drive's.
assemble_folders_not_rebased(folder_defs, names, fs, file_offset, folder_offset) ==
    IF \E k \in 1..Len(folder_defs) : folder_defs[k].name_pos \notin DOMAIN names
    THEN [raised |-> KeyError, folders |-> <<>>, files |-> fs]
    ELSE LET built == [k \in 1..Len(folder_defs) |->
                         Folder(names[folder_defs[k].name_pos], <<>>,
                                PySlice(Indices(fs),
                                        folder_defs[k].file_range[1],
                                        folder_defs[k].file_range[2]),
                                None)]
             wired == [k \in 1..Len(built) |->
                         [built[k] EXCEPT !.sub_folders =
                             PySlice(Indices(built),
                                     folder_defs[k].folder_range[1],
                                     folder_defs[k].folder_range[2])]]
         IN The({[raised |-> NoError, folders |-> r.folders,
                  files |-> r.files] :
                 r \in {ApplyFolderParents(1, wired, fs)}})

\* assemble_folders: [raised, folders, files]
assemble_folders(folder_defs, names, fs, file_offset, folder_offset) ==
    IF \E k \in 1..Len(folder_defs) : folder_defs[k].name_pos \notin DOMAIN names
    THEN [raised |-> KeyError, folders |-> <<>>, files |-> fs]
    ELSE LET built == [k \in 1..Len(folder_defs) |->
                         Folder(names[folder_defs[k].name_pos], <<>>,
                                PySlice(Indices(fs),
                                        folder_defs[k].file_range[1] - file_offset,
                                        folder_defs[k].file_range[2] - file_offset),
                                None)]
             wired == [k \in 1..Len(built) |->
                         [built[k] EXCEPT !.sub_folders =
                             PySlice(Indices(built),
                                     folder_defs[k].folder_range[1] - folder_offset,
                                     folder_defs[k].folder_range[2] - folder_offset)]]
         IN The({[raised |-> NoError, folders |-> r.folders,
                  files |-> r.files] :
                 r \in {ApplyFolderParents(1, wired, fs)}})

Drive(alias, name, sub_folders, fs, folders, all_files) ==
    [alias |-> alias, name |-> name, sub_folders |-> sub_folders,
     files |-> fs, parent |-> None, folders |-> folders,
     all_files |-> all_files]

\* the body of assemble_io_from_defs for one drive: [raised, drive]
AssembleDrive(drive_def, folder_defs, defs, names, data_pos, decompress) ==
    LET local_file_defs == PySlice(defs, drive_def.file_range[1],
                                   drive_def.file_range[2])
        local_folder_defs == PySlice(folder_defs, drive_def.folder_range[1],
                                     drive_def.folder_range[2])
        root_folder == drive_def.root_folder - drive_def.folder_range[1]
    IN The({
        IF local_files.raised # NoError
        THEN [raised |-> local_files.raised, drive |-> <<>>]
        ELSE The({
            IF local_folders.raised # NoError
            THEN [raised |-> local_folders.raised, drive |-> <<>>]
            ELSE The({
                IF ~at.ok THEN [raised |-> IndexError, drive |-> <<>>]
                ELSE LET drive_folder == local_folders.folders[at.at]
                     IN The({[raised |-> NoError,
                              drive |-> Drive(drive_def.alias, drive_def.name,
                                              drive_folder.sub_folders,
                                              drive_folder.files, r.folders,
                                              r.files)] :
                             r \in {ApplySelfAsParent(drive_folder.sub_folders,
                                                      drive_folder.files,
                                                      <<"drive">>,
                                                      local_folders.folders,
                                                      local_folders.files)}})
                : at \in {PyIndex(local_folders.folders, root_folder)}})
            : local_folders \in {assemble_folders(local_folder_defs, names,
                                                  local_files.files,
                                                  drive_def.file_range[1],
                                                  drive_def.folder_range[1])}})
        : local_files \in {assemble_files(local_file_defs, names, data_pos,
                                          decompress)}})

\* assemble_io_from_defs: [raised, drives, files]; files are <<drive, place>>
\* references into the drives, in the order of all_files.
RECURSIVE assemble_io_from_defs(_, _, _, _, _, _)
assemble_io_from_defs(drive_defs, folder_defs, defs, names, data_pos, decompress) ==
    IF drive_defs = <<>>
    THEN [raised |-> NoError, drives |-> <<>>]
    ELSE The({
        IF d.raised # NoError
        THEN [raised |-> d.raised, drives |-> <<>>]
        ELSE The({
            IF rest.raised # NoError THEN rest
            ELSE [raised |-> NoError, drives |-> <<d.drive>> \o rest.drives]
            : rest \in {assemble_io_from_defs(Tail(drive_defs), folder_defs,
                                              defs, names, data_pos,
                                              decompress)}})
        : d \in {AssembleDrive(Head(drive_defs), folder_defs, defs, names,
                               data_pos, decompress)}})

\* load_lazy_data(all_files) over the drives' own file lists:
\* [raised, drives, cursor]
RECURSIVE LoadDrives(_, _, _)
LoadDrives(drives, cont, cur) ==
    IF drives = <<>> THEN [raised |-> NoError, drives |-> <<>>, cursor |-> cur]
    ELSE The({
        IF l.raised # NoError
        THEN [raised |-> l.raised, drives |-> <<>>, cursor |-> l.cursor]
        ELSE The({
            IF rest.raised # NoError THEN rest
            ELSE [raised |-> NoError,
                  drives |-> <<[Head(drives) EXCEPT !.all_files = l.files]>>
                             \o rest.drives,
                  cursor |-> rest.cursor]
            : rest \in {LoadDrives(Tail(drives), cont, l.cursor)}})
        : l \in {load_lazy_data(Head(drives).all_files, cont, cur)}})

\* ------------------------------------------------------------ walk, path
\* A node of a drive is <<"drive">>, <<"folder", place>> or <<"file", place>>.

RecursionError == "RecursionError"

\* Folder.walk() and the loop over sub_folders that it shares with
\* Drive.walk(): [raised, steps], a step being what one yield hands out.  A
\* folder met again below itself is walked again and again until Python gives
\* up with a RecursionError; frames counts the generator frames left, and a
\* descent deeper than the drive has folders has met one of them twice.
RECURSIVE Folder_walk(_, _, _)
RECURSIVE WalkEach(_, _, _)
Folder_walk(drive, k, frames) ==
    IF frames = 0 THEN [raised |-> RecursionError, steps |-> <<>>]
    ELSE The({[raised |-> inner.raised,
               steps |-> <<[self |-> <<"folder", k>>,
                            sub_folders |-> drive.folders[k].sub_folders,
                            files |-> drive.folders[k].files]>>
                         \o inner.steps] :
              inner \in {WalkEach(drive, drive.folders[k].sub_folders,
                                  frames - 1)}})

WalkEach(drive, sub_folders, frames) ==
    IF sub_folders = <<>> THEN [raised |-> NoError, steps |-> <<>>]
    ELSE The({
        IF first.raised # NoError THEN first
        ELSE The({[raised |-> rest.raised, steps |-> first.steps \o rest.steps] :
                  rest \in {WalkEach(drive, Tail(sub_folders), frames)}})
        : first \in {Folder_walk(drive, Head(sub_folders), frames)}})

\* Drive.walk() yielding the drive after its folders.
Drive_walk_folders_first(drive) ==
    The({[raised |-> inner.raised,
          steps |-> inner.steps
                      \o <<[self |-> <<"drive">>,
                            sub_folders |-> drive.sub_folders,
                            files |-> drive.files]>>] :
         inner \in {WalkEach(drive, drive.sub_folders, Len(drive.folders))}})

\* Drive.walk(): [raised, steps]
Drive_walk(drive) ==
    The({[raised |-> inner.raised,
          steps |-> <<[self |-> <<"drive">>, sub_folders |-> drive.sub_folders,
                       files |-> drive.files]>> \o inner.steps] :
         inner \in {WalkEach(drive, drive.sub_folders, Len(drive.folders))}})

\* Archive.walk(): [raised, steps]; a step names its drive by its place in
\* archive.drives.
RECURSIVE Archive_walk(_, _)
Archive_walk(drives, d) ==
    IF d > Len(drives) THEN [raised |-> NoError, steps |-> <<>>]
    ELSE The({
        LET own == [j \in 1..Len(w.steps) |->
                       [drive |-> d, self |-> w.steps[j].self,
                        sub_folders |-> w.steps[j].sub_folders,
                        files |-> w.steps[j].files]]
        IN IF w.raised # NoError THEN [raised |-> w.raised, steps |-> own]
           ELSE The({[raised |-> rest.raised, steps |-> own \o rest.steps] :
                     rest \in {Archive_walk(drives, d + 1)}})
        : w \in {Drive_walk(drives[d])}})

\* A PurePath is the sequence of its parts, <<name>> for a name and
\* <<alias, ":">> for f"{alias}:".  PurePath(name) and path / name: an empty
\* name adds no part.
PurePath(name) == IF name = "" THEN <<>> ELSE <<(<<name>>)>>
PurePath_join(path, name) == path \o PurePath(name)

\* Drive.path: _build_io_path(f"{alias}:", None)
Drive_path(drive) == [raised |-> NoError, path |-> <<(<<drive.alias, ":">>)>>]

\* _build_io_path(name, parent) and the path property of the parent it reads:
\* [raised, path].  Parents that lead back to the node end in a
\* RecursionError.
RECURSIVE build_io_path(_, _, _, _)
build_io_path(drive, name, parent, frames) ==
    IF parent = None THEN [raised |-> NoError, path |-> PurePath(name)]
    ELSE IF frames = 0 THEN [raised |-> RecursionError, path |-> <<>>]
    ELSE The({
        IF parent_path.raised # NoError THEN parent_path
        ELSE [raised |-> NoError, path |-> PurePath_join(parent_path.path, name)]
        : parent_path \in {
            IF parent[1] = <<"drive">> THEN Drive_path(drive)
            ELSE build_io_path(drive, drive.folders[parent[1][2]].name,
                               drive.folders[parent[1][2]].parent,
                               frames - 1)}})

\* Folder.path and File.path of the node at a place of the drive's lists
Folder_path(drive, k) ==
    build_io_path(drive, drive.folders[k].name, drive.folders[k].parent,
                  Len(drive.folders) + 1)

File_path(drive, k) ==
    build_io_path(drive, drive.all_files[k].name, drive.all_files[k].parent,
                  Len(drive.folders) + 1)

\* ------------------------------------------------------ struct and fields
\* A stream of an archive is a sequence of cells: one cell per field of a
\* struct layout, one cell per byte of the name table and of the payloads.

StructError == "struct.error"
MagicWordMismatch == "MagicWordMismatch"
VersionMismatchError == "VersionMismatchError"
MismatchError == "MismatchError"
ValueError == "ValueError"
MD5MismatchError == "MD5MismatchError"

\* Struct.unpack_stream: [ok, vals, cursor]; a short read is a struct.error
unpack_stream(cont, cur, n) ==
    LET buffer == stream_read(cont, cur, n)
    IN [ok |-> Len(buffer) = n, vals |-> buffer, cursor |-> cur + Len(buffer)]

\* "_ARCHIVE"
MagicWord == 95

\* MagicWord.read_magic_word(stream): [raised, cursor]; reads at the cursor
\* and leaves the cursor behind the word.
read_magic_word(cont, cur) ==
    LET u == unpack_stream(cont, cur, 1)
    IN [raised |-> IF u.ok /\ u.vals[1] = MagicWord THEN NoError
                   ELSE MagicWordMismatch,
        cursor |-> u.cursor]

\* Version(major, minor = 0)
Version(major, minor) == <<major, minor>>

\* Version.unpack(stream): [raised, version, cursor]
Version_unpack(cont, cur) ==
    LET u == unpack_stream(cont, cur, 2)
    IN IF ~u.ok
       THEN [raised |-> StructError, version |-> <<>>, cursor |-> u.cursor]
       ELSE [raised |-> NoError, version |-> Version(u.vals[1], u.vals[2]),
             cursor |-> u.cursor]

\* StorageType(value): [ok, val]
StorageType_of(value) ==
    CASE value = 0 -> [ok |-> TRUE, val |-> STORE]
      [] value = 1 -> [ok |-> TRUE, val |-> BUFFER_COMPRESS]
      [] value = 2 -> [ok |-> TRUE, val |-> STREAM_COMPRESS]
      [] OTHER -> [ok |-> FALSE, val |-> STORE]

\* v2 FileDefSerializer.INT2STORAGE that gives STORE for a value it has not.
INT2STORAGE_lenient(value) ==
    CASE value = 16 -> [ok |-> TRUE, val |-> BUFFER_COMPRESS]
      [] value = 32 -> [ok |-> TRUE, val |-> STREAM_COMPRESS]
      [] OTHER -> [ok |-> TRUE, val |-> STORE]

\* v2 FileDefSerializer.INT2STORAGE: [ok, val]
INT2STORAGE(value) ==
    CASE value = 0 -> [ok |-> TRUE, val |-> STORE]
      [] value = 16 -> [ok |-> TRUE, val |-> BUFFER_COMPRESS]
      [] value = 32 -> [ok |-> TRUE, val |-> STREAM_COMPRESS]
      [] OTHER -> [ok |-> FALSE, val |-> STORE]

V2 == 2
V5 == 5
V7 == 7
V9 == 9
Versions == {V2, V5, V7, V9}

\* The cells of the versions' layouts.
FooterLayout(v) == CASE v = V7 -> 2 [] v = V9 -> 3 [] OTHER -> 0
FileLayout(v) == CASE v = V2 -> 5 [] v = V5 -> 7 [] OTHER -> 9
TocLayout == 8
DriveLayout == 7
FolderLayout == 5

ArchivePtrs(header_pos, header_size, data_pos, data_size) ==
    [header_pos |-> header_pos, header_size |-> header_size,
     data_pos |-> data_pos, data_size |-> data_size]

TocHeader(drive_info, folder_info, file_info, name_info) ==
    [drive_info |-> drive_info, folder_info |-> folder_info,
     file_info |-> file_info, name_info |-> name_info]

UnicodeDecodeError == "UnicodeDecodeError"

\* bytes.rstrip(chars): the bytes without their trailing bytes that are in
\* chars; with chars = b"" there is no such byte.
RECURSIVE bytes_rstrip(_, _)
bytes_rstrip(b, chars) ==
    IF b # <<>> /\ b[Len(b)] \in chars
    THEN bytes_rstrip(SubSeq(b, 1, Len(b) - 1), chars)
    ELSE b

\* bytes.decode("utf-16-le"): [ok, str]; str is the sequence of the code
\* units, each of two bytes, the low one first.  An odd number of bytes is a
\* UnicodeDecodeError.
utf_16_le_decode(b) ==
    IF Len(b) % 2 # 0 THEN [ok |-> FALSE, str |-> <<>>]
    ELSE [ok |-> TRUE,
          str |-> [k \in 1..(Len(b) \div 2) |-> b[2 * k - 1] + 256 * b[2 * k]]]

\* str.encode("utf-16-le")
RECURSIVE utf_16_le_encode(_)
utf_16_le_encode(str) ==
    IF str = <<>> THEN <<>>
    ELSE <<Head(str) % 256, Head(str) \div 256>> \o utf_16_le_encode(Tail(str))

\* struct's "Ns" on packing: the bytes cut or NUL-padded to N
pack_s(b, n) == [k \in 1..n |-> IF k <= Len(b) THEN b[k] ELSE NUL]

\* The width of the header's name field, in code units ("128s": 64) and in
\* bytes.
NameFieldChars == 3
NameFieldLen == 2 * NameFieldChars

\* The cells of the versions' header layouts: one per field and, for the
\* name, one per byte.
HeaderLayout(v) ==
    NameFieldLen + (CASE v = V2 -> 4 [] v = V5 -> 8 [] v = V7 -> 3 [] OTHER -> 6)

\* The fields Struct.unpack makes of a header's cells: the name's bytes are
\* one field, the second of V2 and V5 and the first of V7 and V9.
HeaderFields(v, cells) ==
    LET first == IF v \in {V2, V5} THEN 2 ELSE 1
    IN SubSeq(cells, 1, first - 1)
         \o <<SubSeq(cells, first, first + NameFieldLen - 1)>>
         \o SubSeq(cells, first + NameFieldLen, Len(cells))

\* name = encoded_name.rstrip(b"").decode(self.ENCODING)
ArchiveHeader_name(encoded_name) ==
    utf_16_le_decode(bytes_rstrip(encoded_name, {}))

\* A header check that lets every reserved field pass.
ArchiveHeader_check_none(v, vals) == TRUE

\* The reserved-field check of the versions' ArchiveHeaderSerializer.unpack
ArchiveHeader_check(v, vals) ==
    CASE v = V5 -> <<vals[7], vals[8]>> = <<1, 0>>
      [] v = V7 -> vals[4] = 1
      [] v = V9 -> vals[6] = 1
      [] OTHER -> TRUE

\* ArchiveHeaderSerializer.unpack of version v: [raised, header, cursor]
ArchiveHeader_unpack(v, cont, cur) == The({
    LET vals == HeaderFields(v, u.vals)
    IN IF ~u.ok
       THEN [raised |-> StructError, header |-> <<>>, cursor |-> u.cursor]
       ELSE IF ~ArchiveHeader_check(v, vals)
       THEN [raised |-> MismatchError, header |-> <<>>, cursor |-> u.cursor]
       ELSE IF ~ArchiveHeader_name(vals[IF v \in {V2, V5} THEN 2 ELSE 1]).ok
       THEN [raised |-> UnicodeDecodeError, header |-> <<>>,
             cursor |-> u.cursor]
       ELSE [raised |-> NoError, cursor |-> u.cursor,
             header |->
               CASE v = V2 ->
                      [name |-> ArchiveHeader_name(vals[2]).str,
                       ptrs |-> ArchivePtrs(u.cursor, vals[4], vals[5], None),
                       file_md5 |-> vals[1], header_md5 |-> vals[3]]
                 [] v = V5 ->
                      [name |-> ArchiveHeader_name(vals[2]).str,
                       ptrs |-> ArchivePtrs(vals[6], vals[4], vals[5], None),
                       file_md5 |-> vals[1], header_md5 |-> vals[3],
                       unk_a |-> vals[9]]
                 [] v = V7 ->
                      [name |-> ArchiveHeader_name(vals[1]).str,
                       ptrs |-> ArchivePtrs(u.cursor, vals[2], vals[3], None)]
                 [] OTHER ->
                      [name |-> ArchiveHeader_name(vals[1]).str,
                       ptrs |-> ArchivePtrs(vals[2], vals[3], vals[4],
                                            Some(vals[5])),
                       sha_256 |-> vals[7]]]
    : u \in {unpack_stream(cont, cur, HeaderLayout(v))}})

\* ArchiveHeaderSerializer.pack of version v: the cells written
ArchiveHeader_pack(v, value) ==
    LET encoded_name == pack_s(utf_16_le_encode(value.name), NameFieldLen)
    IN CASE v = V2 ->
              <<value.file_md5>> \o encoded_name
                \o <<value.header_md5, value.ptrs.header_size,
                      value.ptrs.data_pos>>
         [] v = V5 ->
              <<value.file_md5>> \o encoded_name
                \o <<value.header_md5, value.ptrs.header_size,
                      value.ptrs.data_pos, value.ptrs.header_pos, 1, 0,
                      value.unk_a>>
         [] v = V7 ->
              encoded_name
                \o <<value.ptrs.header_size, value.ptrs.data_pos, 1>>
         [] OTHER ->
              encoded_name
                \o <<value.ptrs.header_pos, value.ptrs.header_size,
                      value.ptrs.data_pos, value.ptrs.data_size[1], 1,
                      value.sha_256>>

\* TocHeaderSerializer.unpack: [raised, toc, cursor]
TocHeader_unpack(cont, cur) == The({
    LET vals == u.vals
    IN IF ~u.ok
       THEN [raised |-> StructError, toc |-> <<>>, cursor |-> u.cursor]
       ELSE [raised |-> NoError, cursor |-> u.cursor,
             toc |-> TocHeader(<<vals[1], vals[2]>>, <<vals[3], vals[4]>>,
                               <<vals[5], vals[6]>>, <<vals[7], vals[8]>>)]
    : u \in {unpack_stream(cont, cur, TocLayout)}})

\* ArchiveFooterSerializer.unpack of V7 and V9: [raised, footer, cursor]
ArchiveFooter_unpack(v, cont, cur) == The({
    LET vals == u.vals
    IN IF ~u.ok
       THEN [raised |-> StructError, footer |-> <<>>, cursor |-> u.cursor]
       ELSE [raised |-> NoError, cursor |-> u.cursor,
             footer |-> IF v = V7
                        THEN [unk_a |-> vals[1], block_size |-> vals[2]]
                        ELSE [unk_a |-> vals[1], unk_b |-> vals[2],
                              block_size |-> vals[3]]]
    : u \in {unpack_stream(cont, cur, FooterLayout(v))}})

\* DriveDefSerializer.unpack: [raised, val, cursor]
DriveDef_unpack(cont, cur) == The({
    LET vals == u.vals
    IN IF ~u.ok THEN [raised |-> StructError, val |-> <<>>, cursor |-> u.cursor]
       ELSE [raised |-> NoError, cursor |-> u.cursor,
             val |-> DriveDef(vals[1], vals[2], vals[7],
                              <<vals[3], vals[4]>>, <<vals[5], vals[6]>>)]
    : u \in {unpack_stream(cont, cur, DriveLayout)}})

\* FolderDefSerializer.unpack: [raised, val, cursor]
FolderDef_unpack(cont, cur) == The({
    LET vals == u.vals
    IN IF ~u.ok THEN [raised |-> StructError, val |-> <<>>, cursor |-> u.cursor]
       ELSE [raised |-> NoError, cursor |-> u.cursor,
             val |-> FolderDef(vals[1], <<vals[2], vals[3]>>,
                               <<vals[4], vals[5]>>)]
    : u \in {unpack_stream(cont, cur, FolderLayout)}})

\* FileDef of V5, and of V7 and V9
FileDefV5(name_pos, data_pos, length_on_disk, length_in_archive, storage_type, modified, verification) ==
    [name_pos |-> name_pos, data_pos |-> data_pos,
     length_on_disk |-> length_on_disk,
     length_in_archive |-> length_in_archive, storage_type |-> storage_type,
     modified |-> modified, verification |-> verification]

FileDefV7(name_pos, data_pos, length_on_disk, length_in_archive, storage_type, modified, verification, crc, hash_pos) ==
    [name_pos |-> name_pos, data_pos |-> data_pos,
     length_on_disk |-> length_on_disk,
     length_in_archive |-> length_in_archive, storage_type |-> storage_type,
     modified |-> modified, verification |-> verification, crc |-> crc,
     hash_pos |-> hash_pos]

\* datetime.fromtimestamp(seconds, timezone.utc): the UTC instant
datetime_fromtimestamp(seconds) == <<"utc", seconds>>

\* int(datetime.timestamp())
datetime_timestamp(modified) == modified[2]

\* VerificationType(value) and VerificationType.value; the enum's members
\* are not listed, every wire value drawn is taken as one.
VerificationType_of(value) == <<"VerificationType", value>>
VerificationType_value(verification) == verification[2]

\* FileDefSerializer.unpack of version v: [raised, val, cursor]
FileDef_unpack(v, cont, cur) == The({
    LET vals == u.vals
        failed(raised) == [raised |-> raised, val |-> <<>>, cursor |-> u.cursor]
        unpacked(val) == [raised |-> NoError, val |-> val, cursor |-> u.cursor]
    IN IF ~u.ok THEN failed(StructError)
       ELSE
       CASE v = V2 ->
              LET storage_type == INT2STORAGE(vals[2])
              IN IF ~storage_type.ok THEN failed(KeyError)
                 ELSE unpacked(FileDefABC(vals[1], vals[3], vals[4], vals[5],
                                          storage_type.val))
         [] v = V5 ->
              LET storage_type == StorageType_of(vals[7])
              IN IF ~storage_type.ok THEN failed(ValueError)
                 ELSE unpacked(FileDefV5(vals[1], vals[2], vals[3], vals[4],
                                         storage_type.val,
                                         datetime_fromtimestamp(vals[5]),
                                         VerificationType_of(vals[6])))
         [] v = V7 ->
              LET storage_type == StorageType_of(vals[7])
              IN IF ~storage_type.ok THEN failed(ValueError)
                 ELSE unpacked(FileDefV7(vals[1], vals[2], vals[3], vals[4],
                                         storage_type.val,
                                         datetime_fromtimestamp(vals[5]),
                                         VerificationType_of(vals[6]),
                                         vals[8], vals[9]))
         [] OTHER ->
              LET storage_type == StorageType_of(vals[8])
              IN IF ~storage_type.ok THEN failed(ValueError)
                 ELSE unpacked(FileDefV7(vals[1], vals[3], vals[4], vals[5],
                                         storage_type.val,
                                         datetime_fromtimestamp(vals[6]),
                                         VerificationType_of(vals[7]),
                                         vals[9], vals[2]))
    : u \in {unpack_stream(cont, cur, FileLayout(v))}})

\* serializer.unpack(stream) for the serializer kind of version v
Serializer_unpack(kind, v, cont, cur) ==
    CASE kind = "drive" -> DriveDef_unpack(cont, cur)
      [] kind = "folder" -> FolderDef_unpack(cont, cur)
      [] OTHER -> FileDef_unpack(v, cont, cur)

\* the list comprehension of _unpack_helper: [raised, vals, cursor]
RECURSIVE UnpackMany(_, _, _, _, _)
UnpackMany(kind, v, cont, cur, count) ==
    IF count <= 0 THEN [raised |-> NoError, vals |-> <<>>, cursor |-> cur]
    ELSE The({
        IF one.raised # NoError
        THEN [raised |-> one.raised, vals |-> <<>>, cursor |-> one.cursor]
        ELSE The({
            IF rest.raised # NoError THEN rest
            ELSE [raised |-> NoError, vals |-> <<one.val>> \o rest.vals,
                  cursor |-> rest.cursor]
            : rest \in {UnpackMany(kind, v, cont, one.cursor, count - 1)}})
        : one \in {Serializer_unpack(kind, v, cont, cur)}})

\* _unpack_helper(stream, toc_info, header_pos, serializer)
unpack_helper(kind, v, cont, toc_info, header_pos) ==
    UnpackMany(kind, v, cont, header_pos + toc_info[1], toc_info[2])

\* read_toc_definitions: [raised, drives, folders, files, cursor]
read_toc_definitions(v, cont, toc, header_pos) ==
    LET failed(r) == [raised |-> r.raised, drives |-> <<>>, folders |-> <<>>,
                      files |-> <<>>, cursor |-> r.cursor]
    IN The({
        IF drives.raised # NoError THEN failed(drives)
        ELSE The({
            IF folders.raised # NoError THEN failed(folders)
            ELSE The({
                IF fs.raised # NoError THEN failed(fs)
                ELSE [raised |-> NoError, drives |-> drives.vals,
                      folders |-> folders.vals, files |-> fs.vals,
                      cursor |-> fs.cursor]
                : fs \in {unpack_helper("file", v, cont, toc.file_info,
                                        header_pos)}})
            : folders \in {unpack_helper("folder", v, cont, toc.folder_info,
                                         header_pos)}})
        : drives \in {unpack_helper("drive", v, cont, toc.drive_info,
                                    header_pos)}})

\* --------------------------------------------------------- MD5 checksums

\* Size of the digest space of the model's hash.
HashMod == 3

KiB == 1024

\* hashlib.md5: update() folds the cells in, so the digest of chunks fed one
\* after the other is the digest of their concatenation.
md5_update(h, chunk) ==
    LET state[k \in 0..Len(chunk)] ==
            IF k = 0 THEN h ELSE (2 * state[k - 1] + chunk[k] + 1) % HashMod
    IN state[Len(chunk)]

md5(data) == md5_update(0, data)

FILE_MD5_EIGEN == <<1>>
HEADER_MD5_EIGEN == <<2>>

\* _chunked_read with size = None and a chunk size: [data, cursor], data
\* being the chunks one after the other.
RECURSIVE ChunksToEnd(_, _, _)
ChunksToEnd(cont, cur, chunk_size) == The({
    IF Len(buffer) # chunk_size
    THEN [data |-> buffer, cursor |-> cur + Len(buffer)]
    ELSE The({[data |-> buffer \o rest.data, cursor |-> rest.cursor] :
              rest \in {ChunksToEnd(cont, cur + Len(buffer), chunk_size)}})
    : buffer \in {stream_read(cont, cur, chunk_size)}})

\* the for loop of _chunked_read with a size and a chunk size
RECURSIVE ChunksCounted(_, _, _, _)
ChunksCounted(cont, cur, chunk_size, chunks) ==
    IF chunks = 0 THEN [data |-> <<>>, cursor |-> cur]
    ELSE The({
        The({[data |-> buffer \o rest.data, cursor |-> rest.cursor] :
             rest \in {ChunksCounted(cont, cur + Len(buffer), chunk_size,
                                     chunks - 1)}})
        : buffer \in {stream_read(cont, cur, chunk_size)}})

\* _chunked_read(stream, size, chunk_size) with a chunk size: [data, cursor]
chunked_read(cont, cur, size, chunk_size) ==
    IF size = None THEN ChunksToEnd(cont, cur, chunk_size)
    ELSE LET chunks == size[1] \div chunk_size
             total_read == chunk_size * chunks
         IN The({
             IF total_read < size[1]
             THEN The({[data |-> whole.data \o buffer,
                        cursor |-> whole.cursor + Len(buffer)] :
                       buffer \in {stream_read(cont, whole.cursor,
                                               size[1] - total_read)}})
             ELSE whole
             : whole \in {ChunksCounted(cont, cur, chunk_size, chunks)}})

Md5ChecksumHelper(expected, start, size, eigen) ==
    [expected |-> expected, start |-> start, size |-> size, eigen |-> eigen]

\* A digest that leaves the salt out.
Md5ChecksumHelper_read_unsalted(self, cont) ==
    The({[digest |-> md5(r.data), cursor |-> r.cursor] :
         r \in {chunked_read(cont, self.start, self.size, 256 * KiB)}})

\* Md5ChecksumHelper.read(): [digest, cursor]
Md5ChecksumHelper_read(self, cont) ==
    LET seed == IF self.eigen # None THEN md5(self.eigen[1]) ELSE md5(<<>>)
    IN The({[digest |-> md5_update(seed, r.data), cursor |-> r.cursor] :
            r \in {chunked_read(cont, self.start, self.size, 256 * KiB)}})

\* Md5ChecksumHelper.validate(): [raised, digest, cursor]
Md5ChecksumHelper_validate(self, cont) ==
    The({[raised |-> IF self.expected # Some(result.digest)
                     THEN MD5MismatchError ELSE NoError,
          digest |-> result.digest, cursor |-> result.cursor] :
         result \in {Md5ChecksumHelper_read(self, cont)}})

\* ------------------------------------------------------- version drivers

Final == {"DONE", "FAILED"}

\* The locals of one call of read: which entry point, where it stands, what
\* it raised, the driver's version, the arguments and what was parsed so far.
NewReader(entry, pc, driver, lazy, decompress) ==
    [entry |-> entry, pc |-> pc, error |-> NoError, driver |-> driver,
     lazy |-> lazy, decompress |-> decompress, header |-> None, toc |-> None,
     footer |-> None, drive_defs |-> <<>>, folder_defs |-> <<>>,
     file_defs |-> <<>>, names |-> <<>>, drives |-> <<>>, archive |-> None]

IdleReader == NewReader("none", "IDLE", 0, FALSE, FALSE)

Raise(rs, raised, cur) ==
    [rs |-> [rs EXCEPT !.pc = "FAILED", !.error = raised], cursor |-> cur]

\* relic.sga._apis.apis
apis == [ver \in {Version(v, 0) : v \in Versions} |-> ver[1]]

\* _apis.read up to the call of the driver's read
StepSniff(rs, cont, cur) == The({
    IF m.raised # NoError THEN Raise(rs, m.raised, m.cursor)
    ELSE The({
        IF ver.raised # NoError THEN Raise(rs, ver.raised, ver.cursor)
        ELSE IF ver.version \notin DOMAIN apis
        THEN Raise(rs, KeyError, ver.cursor)
        ELSE [rs |-> [rs EXCEPT !.pc = "START", !.driver = apis[ver.version]],
              cursor |-> ver.cursor]
        : ver \in {Version_unpack(cont, m.cursor)}})
    : m \in {read_magic_word(cont, cur)}})

\* MagicWord.read_magic_word(stream)
StepMagic(rs, cont, cur) == The({
    IF m.raised # NoError THEN Raise(rs, m.raised, m.cursor)
    ELSE [rs |-> [rs EXCEPT !.pc = "MAGIC_OK"], cursor |-> m.cursor]
    : m \in {read_magic_word(cont, cur)}})

\* Version.unpack(stream) and the comparison with self.version
StepVersion(rs, cont, cur) == The({
    IF ver.raised # NoError THEN Raise(rs, ver.raised, ver.cursor)
    ELSE IF ver.version # Version(rs.driver, 0)
    THEN Raise(rs, VersionMismatchError, ver.cursor)
    ELSE [rs |-> [rs EXCEPT !.pc = "VERSION_OK"], cursor |-> ver.cursor]
    : ver \in {Version_unpack(cont, cur)}})

\* self.archive_header_serializer.unpack(stream)
StepHeader(rs, cont, cur) == The({
    IF h.raised # NoError THEN Raise(rs, h.raised, h.cursor)
    ELSE [rs |-> [rs EXCEPT !.pc = "HEADER_PARSED", !.header = Some(h.header)],
          cursor |-> h.cursor]
    : h \in {ArchiveHeader_unpack(rs.driver, cont, cur)}})

\* V5 and V9: stream.seek(header.ptrs.header_pos); then
\* self.toc_serializer.unpack(stream)
StepToc(rs, cont, cur) ==
    LET at == IF rs.driver \in {V5, V9} THEN rs.header[1].ptrs.header_pos
              ELSE cur
    IN The({
        IF t.raised # NoError THEN Raise(rs, t.raised, t.cursor)
        ELSE [rs |-> [rs EXCEPT !.pc = "TOC_PARSED", !.toc = Some(t.toc)],
              cursor |-> t.cursor]
        : t \in {TocHeader_unpack(cont, at)}})

\* V7 and V9: self.archive_footer_serializer.unpack(stream)
StepFooter(rs, cont, cur) == The({
    IF f.raised # NoError THEN Raise(rs, f.raised, f.cursor)
    ELSE [rs |-> [rs EXCEPT !.pc = "FOOTER_PARSED", !.footer = Some(f.footer)],
          cursor |-> f.cursor]
    : f \in {ArchiveFooter_unpack(rs.driver, cont, cur)}})

\* read_toc: read_toc_definitions
StepDefs(rs, cont, cur) == The({
    IF d.raised # NoError THEN Raise(rs, d.raised, d.cursor)
    ELSE [rs |-> [rs EXCEPT !.pc = "DEFS_READ", !.drive_defs = d.drives,
                            !.folder_defs = d.folders, !.file_defs = d.files],
          cursor |-> d.cursor]
    : d \in {read_toc_definitions(rs.driver, cont, rs.toc[1],
                                  rs.header[1].ptrs.header_pos)}})

\* read_toc: read_toc_names_as_count
StepNames(rs, cont, cur) == The({
    IF n.raised # NoError THEN Raise(rs, n.raised, n.cursor)
    ELSE [rs |-> [rs EXCEPT !.pc = "NAMES_READ", !.names = n.names],
          cursor |-> n.cursor]
    : n \in {read_toc_names_as_count(cont, rs.toc[1].name_info,
                                     rs.header[1].ptrs.header_pos, 256)}})

\* read_toc: assemble_io_from_defs
StepAssemble(rs, cont, cur) == The({
    IF t.raised # NoError THEN Raise(rs, t.raised, cur)
    ELSE [rs |-> [rs EXCEPT !.pc = "TREE_BUILT", !.drives = t.drives],
          cursor |-> cur]
    : t \in {assemble_io_from_defs(rs.drive_defs, rs.folder_defs, rs.file_defs,
                                   rs.names, rs.header[1].ptrs.data_pos,
                                   rs.decompress)}})

\* if not lazy: load_lazy_data(files)
StepLoad(rs, cont, cur) == The({
    IF l.raised # NoError THEN Raise(rs, l.raised, l.cursor)
    ELSE [rs |-> [rs EXCEPT !.pc = "DATA_LOADED", !.drives = l.drives],
          cursor |-> l.cursor]
    : l \in {LoadDrives(rs.drives, cont, cur)}})

\* The ArchiveMetadata the driver of version v builds
ArchiveMetadata(v, header, footer) ==
    CASE v = V2 ->
           [file_md5 |-> Md5ChecksumHelper(Some(header.file_md5),
                                           header.ptrs.header_pos, None,
                                           Some(FILE_MD5_EIGEN)),
            header_md5 |-> Md5ChecksumHelper(Some(header.header_md5),
                                             header.ptrs.header_pos,
                                             Some(header.ptrs.header_size),
                                             Some(HEADER_MD5_EIGEN))]
      [] v = V5 ->
           [file_md5 |-> Md5ChecksumHelper(Some(header.file_md5),
                                           header.ptrs.header_pos, None,
                                           Some(FILE_MD5_EIGEN)),
            header_md5 |-> Md5ChecksumHelper(Some(header.header_md5),
                                             header.ptrs.header_pos,
                                             Some(header.ptrs.header_size),
                                             Some(FILE_MD5_EIGEN)),
            unk_a |-> header.unk_a]
      [] v = V7 ->
           [unk_a |-> footer[1].unk_a, block_size |-> footer[1].block_size]
      [] OTHER ->
           [sha_256 |-> header.sha_256, unk_a |-> footer[1].unk_a,
            unk_b |-> footer[1].unk_b, block_size |-> footer[1].block_size]

Archive(name, metadata, drives) ==
    [name |-> name, metadata |-> metadata, drives |-> drives]

\* the metadata and return Archive(header.name, metadata, drives)
StepFinish(rs, cont, cur) ==
    LET metadata == ArchiveMetadata(rs.driver, rs.header[1], rs.footer)
    IN [rs |-> [rs EXCEPT !.pc = "DONE",
                          !.archive = Some(Archive(rs.header[1].name, metadata,
                                                   rs.drives))],
        cursor |-> cur]

\* The statement of read the reader stands before.
Step(rs, cont, cur) ==
    CASE rs.pc = "API_START" -> StepSniff(rs, cont, cur)
      [] rs.pc = "START" -> StepMagic(rs, cont, cur)
      [] rs.pc = "MAGIC_OK" -> StepVersion(rs, cont, cur)
      [] rs.pc = "VERSION_OK" -> StepHeader(rs, cont, cur)
      [] rs.pc = "HEADER_PARSED" -> StepToc(rs, cont, cur)
      [] rs.pc = "TOC_PARSED" ->
           IF rs.driver \in {V7, V9} THEN StepFooter(rs, cont, cur)
           ELSE StepDefs(rs, cont, cur)
      [] rs.pc = "FOOTER_PARSED" -> StepDefs(rs, cont, cur)
      [] rs.pc = "DEFS_READ" -> StepNames(rs, cont, cur)
      [] rs.pc = "NAMES_READ" -> StepAssemble(rs, cont, cur)
      [] rs.pc = "TREE_BUILT" ->
           IF ~rs.lazy THEN StepLoad(rs, cont, cur)
           ELSE StepFinish(rs, cont, cur)
      [] rs.pc = "DATA_LOADED" -> StepFinish(rs, cont, cur)
      [] OTHER -> [rs |-> rs, cursor |-> cur]

\* A whole call, from the reader rs on: [rs, cursor]
RECURSIVE RunRead(_, _, _)
RunRead(rs, cont, cur) ==
    IF rs.pc \in Final THEN [rs |-> rs, cursor |-> cur]
    ELSE The({RunRead(s.rs, cont, s.cursor) : s \in {Step(rs, cont, cur)}})

\* ArchiveSerializer.read(stream, lazy, decompress) of the driver of version v
ArchiveSerializer_read(v, cont, cur, lazy, decompress) ==
    RunRead(NewReader("driver", "START", v, lazy, decompress), cont, cur)

\* relic.sga._apis.read(stream, lazy, decompress)
apis_read(cont, cur, lazy, decompress) ==
    RunRead(NewReader("api", "API_START", 0, lazy, decompress), cont, cur)

\* ------------------------------------------------------- archive streams
\* The archives the drivers are run on: one drive, its root folder "r" and one
\* file "a" in it, laid out as the versions' unpack operations read them, and
\* then damaged in up to MaxFaults of the ways of Faults.

\* Most damages one archive bears at once.
MaxFaults == 2

Faults == {"magic", "tag", "rsv", "trunc", "storage", "names", "name_pos",
           "root"}

\* The payload of the file: a stored one, a deflated one, and a deflated one
\* whose definition declares another length than it inflates to.
Payloads ==
    {[storage_type |-> STORE, stored |-> <<1, 0>>, length_on_disk |-> 2],
     [storage_type |-> BUFFER_COMPRESS, stored |-> zlib_compress(<<1>>),
      length_on_disk |-> 1],
     [storage_type |-> BUFFER_COMPRESS, stored |-> zlib_compress(<<1>>),
      length_on_disk |-> 2]}

\* v2 FileDefSerializer.STORAGE2INT
STORAGE2INT(storage_type) ==
    CASE storage_type = STORE -> 0
      [] storage_type = BUFFER_COMPRESS -> 16
      [] OTHER -> 32

\* StorageType.value
StorageType_value(storage_type) ==
    CASE storage_type = STORE -> 0
      [] storage_type = BUFFER_COMPRESS -> 1
      [] OTHER -> 2

\* The largest value of a struct "B"; an "I" and a "Q" hold every number
\* that is packed here.
UCHAR_MAX == 255

\* The formats of the versions' file_layout
FileFormat(v) ==
    CASE v = V2 -> <<"I", "I", "I", "I", "I">>
      [] v = V5 -> <<"I", "I", "I", "I", "I", "B", "B">>
      [] v = V7 -> <<"I", "I", "I", "I", "I", "B", "B", "I", "I">>
      [] OTHER -> <<"I", "I", "Q", "I", "I", "I", "B", "B", "I">>

\* Struct.pack_stream: [raised, cells]; a value its format cannot hold is a
\* struct.error.
pack_stream(format, args) ==
    IF \E k \in 1..Len(args) :
          args[k] < 0 \/ (format[k] = "B" /\ args[k] > UCHAR_MAX)
    THEN [raised |-> StructError, cells |-> <<>>]
    ELSE [raised |-> NoError, cells |-> args]

\* FileDefSerializer.pack of version v: [raised, cells]
FileDef_pack(v, value) ==
    CASE v = V2 ->
           pack_stream(FileFormat(v),
                       <<value.name_pos, STORAGE2INT(value.storage_type),
                         value.data_pos, value.length_on_disk,
                         value.length_in_archive>>)
      [] v = V5 ->
           pack_stream(FileFormat(v),
                       <<value.name_pos, value.data_pos, value.length_on_disk,
                         value.length_in_archive,
                         StorageType_value(value.storage_type),
                         datetime_timestamp(value.modified),
                         VerificationType_value(value.verification)>>)
      [] v = V7 ->
           pack_stream(FileFormat(v),
                       <<value.name_pos, value.data_pos, value.length_on_disk,
                         value.length_in_archive,
                         datetime_timestamp(value.modified),
                         VerificationType_value(value.verification),
                         StorageType_value(value.storage_type),
                         value.crc, value.hash_pos>>)
      [] OTHER ->
           pack_stream(FileFormat(v),
                       <<value.name_pos, value.hash_pos, value.data_pos,
                         value.length_on_disk, value.length_in_archive,
                         StorageType_value(value.storage_type),
                         datetime_timestamp(value.modified),
                         VerificationType_value(value.verification),
                         value.crc>>)

Archives ==
    {[version |-> v, faults |-> fs, payload |-> p, file_drift |-> fd,
      header_drift |-> hd] :
        v \in Versions,
        fs \in {s \in SUBSET Faults : Cardinality(s) <= MaxFaults},
        p \in Payloads,
        fd \in {0, 1}, hd \in {0, 1}}

\* The cells from header_pos on: TOC header, footer, definitions, names, data.
PackBody(a, header_pos) ==
    LET v == a.version
        drive_pos == TocLayout + FooterLayout(v)
        folder_pos == drive_pos + DriveLayout
        file_pos == folder_pos + FolderLayout
        name_pos == file_pos + FileLayout(v)
        names == <<3, NUL, 4, NUL>>
        name_count == IF "names" \in a.faults THEN 9 ELSE 2
        root_folder == IF "root" \in a.faults THEN 1 ELSE 0
        file_name == IF "name_pos" \in a.faults THEN 1 ELSE 2
        storage == IF "storage" \in a.faults THEN 7
                   ELSE IF v = V2 THEN STORAGE2INT(a.payload.storage_type)
                   ELSE StorageType_value(a.payload.storage_type)
        ld == a.payload.length_on_disk
        la == Len(a.payload.stored)
        toc == <<drive_pos, 1, folder_pos, 1, file_pos, 1, name_pos, name_count>>
        footer == CASE v = V7 -> <<11, 12>> [] v = V9 -> <<11, 13, 12>>
                    [] OTHER -> <<>>
        drive == <<21, 22, 0, 1, 0, 1, root_folder>>
        folder == <<0, 1, 1, 0, 1>>
        file == CASE v = V2 -> <<file_name, storage, 0, ld, la>>
                  [] v = V5 -> <<file_name, 0, ld, la, 31, 32, storage>>
                  [] v = V7 -> <<file_name, 0, ld, la, 31, 32, storage, 33, 34>>
                  [] OTHER -> <<file_name, 34, 0, ld, la, 31, 32, storage, 33>>
    IN [header_size |-> name_pos + Len(names),
        cells |-> toc \o footer \o drive \o folder \o file \o names
                    \o a.payload.stored]

\* The stream of archive a.
PackArchive(a) ==
    LET v == a.version
        header_pos == 3 + HeaderLayout(v)
        body == PackBody(a, header_pos)
        header_size == body.header_size
        data_pos == header_pos + header_size
        rsv_1 == IF "rsv" \in a.faults THEN 0 ELSE 1
        file_md5 == (md5(FILE_MD5_EIGEN \o body.cells) + a.file_drift)
                       % HashMod
        header_md5 == (md5(HEADER_MD5_EIGEN
                             \o SubSeq(body.cells, 1, header_size))
                          + a.header_drift) % HashMod
        magic == IF "magic" \in a.faults THEN MagicWord + 1 ELSE MagicWord
        tag == IF "tag" \in a.faults THEN <<v, 1>> ELSE <<v, 0>>
        name == pack_s(utf_16_le_encode(<<97>>), NameFieldLen)
        header ==
            CASE v = V2 -> <<file_md5>> \o name
                             \o <<header_md5, header_size, data_pos>>
              [] v = V5 -> <<file_md5>> \o name
                             \o <<header_md5, header_size, data_pos,
                                   header_pos, rsv_1, 0, 42>>
              [] v = V7 -> name \o <<header_size, data_pos, rsv_1>>
              [] OTHER -> name \o <<header_pos, header_size, data_pos,
                            Len(a.payload.stored), rsv_1, 43>>
        whole == <<magic>> \o tag \o header \o body.cells
    IN IF "trunc" \in a.faults THEN SubSeq(whole, 1, header_pos + 4)
       ELSE whole

\* ---------------------------------------------------------------- state

VARIABLES
    content,    \* the bytes of the shared stream
    cursor,     \* the stream's cursor (tell())
    file_defs,  \* the file definitions of the archive being decoded
    opts,       \* [lazy, decompress] as passed to read; None before read
    files,      \* the File objects of the decoded archive
    pc,         \* "start", "decoded" (an archive was returned) or "failed"
    last,       \* the library's last call: [op, file, raised, val, touched]
    arch,       \* the archive the stream was packed from; None without one
    rd,         \* the call of read under way or returned: see NewReader
    toc_defs,   \* the definition arrays and names handed to the assembly
    assembled,  \* what assemble_io_from_defs returned or raised; None before
    walked,     \* what Archive.walk() yielded or raised; None before
    name_table, \* the name table handed to read_toc_names_as_count
    name_map,   \* what read_toc_names_as_count returned or raised; None before
    codec_in,   \* the value or the bytes handed to a serializer; None without
    codec_out,  \* what the serializer returned or raised; None before
    lang,       \* the LangEnvironment: [allow_replacement, strings]; or None
    lang_out    \* the LangEnvironment's last call and its result; None before

fileVars == <<content, cursor, file_defs, opts, files, pc, last>>
readVars == <<arch, rd>>
tocVars == <<toc_defs, assembled, walked, name_table, name_map>>
codecVars == <<codec_in, codec_out>>
langVars == <<lang, lang_out>>
vars == <<fileVars, readVars, tocVars, codecVars, langVars>>

\* No table of contents is being assembled and no name table decoded.
IdleToc ==
    /\ toc_defs = None
    /\ assembled = None
    /\ walked = None
    /\ name_table = None
    /\ name_map = None

\* No serializer was called.
IdleCodec == codec_in = None /\ codec_out = None

\* There is no LangEnvironment.
IdleLang == lang = None /\ lang_out = None

\* The name table of the file-level specifications.
FileNames == (0 :> "a") @@ (2 :> "b")

FileDefs ==
    {FileDefABC(np, dp, ld, la, st) :
        np \in {0}, dp \in 0..MaxDataPos, ld \in 0..MaxUnpacked,
        la \in 0..MaxPacked, st \in StorageType}

Call(op, file, raised, val, touched) ==
    [op |-> op, file |-> file, raised |-> raised, val |-> val,
     touched |-> touched]

\* The part of a driver's read after the definitions and names are known:
\* read_toc's assembly and, when not lazy, load_lazy_data.
\* [raised, files, cursor, touched]; touched tells whether the stream was used.
ReadFiles(defs, names, data_pos, cont, cur, lazy, decompress) ==
    LET a == assemble_files(defs, names, data_pos, decompress)
    IN IF a.raised # NoError
       THEN [raised |-> a.raised, files |-> <<>>, cursor |-> cur,
             touched |-> FALSE]
       ELSE IF lazy
       THEN [raised |-> NoError, files |-> a.files, cursor |-> cur,
             touched |-> FALSE]
       ELSE LET l == load_lazy_data(a.files, cont, cur)
            IN IF l.raised # NoError
               THEN [raised |-> l.raised, files |-> <<>>, cursor |-> l.cursor,
                     touched |-> a.files # <<>>]
               ELSE [raised |-> NoError, files |-> l.files,
                     cursor |-> l.cursor, touched |-> a.files # <<>>]

InitFile(defs) ==
    /\ content \in BytesOfLen(StreamLen)
    /\ cursor = 0
    /\ file_defs \in defs
    /\ opts = None
    /\ files = <<>>
    /\ pc = "start"
    /\ last = Call("init", 0, NoError, <<>>, FALSE)
    /\ arch = None
    /\ rd = IdleReader
    /\ IdleToc
    /\ IdleCodec
    /\ IdleLang

\* read(stream, lazy, decompress) up to the returned archive's files
Read(lazy, decompress) ==
    /\ pc = "start"
    /\ LET r == ReadFiles(file_defs, FileNames, 0, content, cursor, lazy,
                          decompress)
       IN /\ files' = r.files
          /\ cursor' = r.cursor
          /\ pc' = IF r.raised = NoError THEN "decoded" ELSE "failed"
          /\ last' = Call("read", 0, r.raised, <<>>, r.touched)
    /\ opts' = Some([lazy |-> lazy, decompress |-> decompress])
    /\ UNCHANGED <<readVars, tocVars, codecVars, langVars, content, file_defs>>

\* file.data
GetData(i) ==
    /\ pc = "decoded"
    /\ LET r == File_data(files[i], content, cursor)
       IN /\ files' = [files EXCEPT ![i] = r.file]
          /\ cursor' = r.cursor
          /\ last' = Call("data", i, r.raised, r.val, r.touched)
    /\ UNCHANGED <<readVars, tocVars, codecVars, langVars, content,
                   file_defs, opts, pc>>

\* file._lazy_info.read(decompress=d), called directly
LazyRead(i, d) ==
    /\ pc = "decoded"
    /\ files[i].lazy_info # None
    /\ LET r == FileLazyInfo_read(files[i].lazy_info[1], d, content, cursor)
       IN /\ cursor' = r.cursor
          /\ last' = Call("lazy_read", i, r.raised, r.val, TRUE)
    /\ UNCHANGED <<readVars, tocVars, codecVars, langVars, content,
                   file_defs, opts, files, pc>>

\* file.data = value
SetData(i, value) ==
    /\ pc = "decoded"
    /\ files' = [files EXCEPT ![i] = File_set_data(files[i], value)]
    /\ last' = Call("set_data", i, NoError, <<>>, FALSE)
    /\ UNCHANGED <<readVars, tocVars, codecVars, langVars, content, cursor,
                   file_defs, opts, pc>>

\* file.compress()
Compress(i) ==
    /\ pc = "decoded"
    /\ LET r == File_compress(files[i], content, cursor)
       IN /\ files' = [files EXCEPT ![i] = r.file]
          /\ cursor' = r.cursor
          /\ last' = Call("compress", i, r.raised, <<>>, r.touched)
    /\ UNCHANGED <<readVars, tocVars, codecVars, langVars, content,
                   file_defs, opts, pc>>

\* file.decompress()
Decompress(i) ==
    /\ pc = "decoded"
    /\ LET r == File_decompress(files[i], content, cursor)
       IN /\ files' = [files EXCEPT ![i] = r.file]
          /\ cursor' = r.cursor
          /\ last' = Call("decompress", i, r.raised, <<>>, r.touched)
    /\ UNCHANGED <<readVars, tocVars, codecVars, langVars, content,
                   file_defs, opts, pc>>

\* file.compress(); file.decompress() by a caller, back to back
CompressDecompress(i) ==
    /\ pc = "decoded"
    /\ LET c == File_compress(files[i], content, cursor)
           r == IF c.raised # NoError THEN c
                ELSE File_decompress(c.file, content, c.cursor)
       IN /\ files' = [files EXCEPT ![i] = r.file]
          /\ cursor' = r.cursor
          /\ last' = Call("compress_decompress", i, r.raised, <<>>,
                          c.touched \/ r.touched)
    /\ UNCHANGED <<readVars, tocVars, codecVars, langVars, content,
                   file_defs, opts, pc>>

\* the caller's own stream.seek(p)
Seek(p) ==
    /\ cursor' = p
    /\ cursor # p
    /\ UNCHANGED <<readVars, tocVars, codecVars, langVars, content,
                   file_defs, opts, files, pc, last>>

\* the caller overwrites one byte of the stream (the archive changes on disk)
Write(p, b) ==
    /\ pc = "decoded"
    /\ content[p] # b
    /\ content' = [content EXCEPT ![p] = b]
    /\ UNCHANGED <<readVars, tocVars, codecVars, langVars, cursor, file_defs,
                   opts, files, pc, last>>

\* The value a caller assigns to file.data.
AssignedData == {<<1, 0>>}

\* Spec: one file; the caller reads it (through file.data or its lazy handle),
\* moves the shared cursor and changes the stream's bytes.
Init == InitFile({<<d>> : d \in FileDefs})

Next ==
    \/ \E lazy \in BOOLEAN, decompress \in BOOLEAN : Read(lazy, decompress)
    \/ \E i \in DOMAIN files : GetData(i)
    \/ \E i \in DOMAIN files, d \in {None, Some(TRUE), Some(FALSE)} :
          LazyRead(i, d)
    \/ \E p \in 0..StreamLen : Seek(p)
    \/ \E p \in 1..StreamLen, b \in Byte : Write(p, b)

Spec == Init /\ [][Next]_vars

\* SpecFileOps: one file; the caller reads, compresses and decompresses it.
NextFileOps ==
    \/ \E lazy \in BOOLEAN, decompress \in BOOLEAN : Read(lazy, decompress)
    \/ \E i \in DOMAIN files : GetData(i)
    \/ \E i \in DOMAIN files : Compress(i)
    \/ \E i \in DOMAIN files : Decompress(i)
    \/ \E i \in DOMAIN files : CompressDecompress(i)

SpecFileOps == Init /\ [][NextFileOps]_vars

\* SpecLazy: two files on one stream, read in any order between the caller's
\* own seeks; the stream's bytes stay as decoded.
\* The first file's payload starts the data section, the second one's follows
\* it and is stored the same way.
LazyDefs ==
    {<<d1, FileDefABC(2, d1.length_in_archive, ld, la, d1.storage_type)>> :
        d1 \in {d \in FileDefs : d.data_pos = 0},
        ld \in 0..MaxUnpacked, la \in 0..MaxPacked}

InitLazy == InitFile(LazyDefs)

NextLazy ==
    \/ \E lazy \in BOOLEAN, decompress \in BOOLEAN : Read(lazy, decompress)
    \/ \E i \in DOMAIN files : GetData(i)
    \/ \E p \in {0, StreamLen} : Seek(p)

SpecLazy == InitLazy /\ [][NextLazy]_vars

\* with file.open(read_only) as stream: the body writes or does not
Open(i, read_only, written) ==
    /\ pc = "decoded"
    /\ LET r == File_open(files[i], read_only, written, content, cursor)
       IN /\ files' = [files EXCEPT ![i] = r.file]
          /\ cursor' = r.cursor
          /\ last' = Call("open", i, r.raised, <<>>, r.touched)
    /\ UNCHANGED <<readVars, tocVars, codecVars, langVars, content,
                   file_defs, opts, pc>>

\* SpecFiles: one file; the caller reads it, assigns its data, opens,
\* compresses and decompresses it.
NextFiles ==
    \/ \E lazy \in BOOLEAN, decompress \in BOOLEAN : Read(lazy, decompress)
    \/ \E i \in DOMAIN files : GetData(i)
    \/ \E i \in DOMAIN files, value \in AssignedData : SetData(i, value)
    \/ \E i \in DOMAIN files, read_only \in BOOLEAN,
          written \in {None} \cup {Some(value) : value \in AssignedData} :
          Open(i, read_only, written)
    \/ \E i \in DOMAIN files : Compress(i)
    \/ \E i \in DOMAIN files : Decompress(i)

SpecFiles == Init /\ [][NextFiles]_vars

\* SpecShared: two files of a lazily decoded archive on one stream, read in
\* any order between the caller's seeks and the reads and validations of
\* checksum helpers on the same stream.
Helpers ==
    {Md5ChecksumHelper(Some(0), 1, size, Some(FILE_MD5_EIGEN)) :
        size \in {None, Some(1)}}

\* helper.read()
ChecksumRead(helper) ==
    /\ pc = "decoded"
    /\ \E r \in {Md5ChecksumHelper_read(helper, content)} :
          /\ cursor' = r.cursor
          /\ last' = Call("checksum", 0, NoError, Some(r.digest), TRUE)
    /\ UNCHANGED <<readVars, tocVars, codecVars, langVars, content,
                   file_defs, opts, files, pc>>

\* helper.validate()
ChecksumValidate(helper) ==
    /\ pc = "decoded"
    /\ \E r \in {Md5ChecksumHelper_validate(helper, content)} :
          /\ cursor' = r.cursor
          /\ last' = Call("validate", 0, r.raised, Some(r.digest), TRUE)
    /\ UNCHANGED <<readVars, tocVars, codecVars, langVars, content,
                   file_defs, opts, files, pc>>

NextShared ==
    \/ \E decompress \in BOOLEAN : Read(TRUE, decompress)
    \/ \E i \in DOMAIN files : GetData(i)
    \/ \E helper \in Helpers : ChecksumRead(helper)
    \/ \E helper \in Helpers : ChecksumValidate(helper)
    \/ \E p \in {0, StreamLen} : Seek(p)

SpecShared == InitLazy /\ [][NextShared]_vars

\* ------------------------------------------- the drivers' specification

InitRead ==
    /\ arch \in {Some(a) : a \in Archives}
    /\ content = PackArchive(arch[1])
    /\ cursor = 0
    /\ file_defs = <<>>
    /\ opts = None
    /\ files = <<>>
    /\ pc = "start"
    /\ last = Call("init", 0, NoError, <<>>, FALSE)
    /\ rd = IdleReader
    /\ IdleToc
    /\ IdleCodec
    /\ IdleLang

\* relic.sga._apis.read(stream, lazy, decompress) is called
CallApi(lazy, decompress) ==
    /\ rd.pc = "IDLE"
    /\ rd' = NewReader("api", "API_START", 0, lazy, decompress)
    /\ UNCHANGED <<fileVars, arch, tocVars, codecVars, langVars>>

\* the driver of version v is called: ArchiveIO.read(stream, lazy, decompress)
CallDriver(v, lazy, decompress) ==
    /\ rd.pc = "IDLE"
    /\ rd' = NewReader("driver", "START", v, lazy, decompress)
    /\ UNCHANGED <<fileVars, arch, tocVars, codecVars, langVars>>

\* The reader takes the statement it stands before.
Advance ==
    /\ \E s \in {Step(rd, content, cursor)} :
          /\ rd' = s.rs
          /\ cursor' = s.cursor
    /\ UNCHANGED <<content, file_defs, opts, files, pc, last, arch, tocVars,
                   codecVars, langVars>>

SniffVersion == rd.pc = "API_START" /\ Advance

ReadMagicWord == rd.pc = "START" /\ Advance

ReadVersion == rd.pc = "MAGIC_OK" /\ Advance

ReadHeader == rd.pc = "VERSION_OK" /\ Advance

ReadTocHeader == rd.pc = "HEADER_PARSED" /\ Advance

ReadFooter == rd.pc = "TOC_PARSED" /\ rd.driver \in {V7, V9} /\ Advance

ReadDefinitions ==
    /\ \/ rd.pc = "TOC_PARSED" /\ rd.driver \in {V2, V5}
       \/ rd.pc = "FOOTER_PARSED"
    /\ Advance

ReadNames == rd.pc = "DEFS_READ" /\ Advance

AssembleTree == rd.pc = "NAMES_READ" /\ Advance

LoadData == rd.pc = "TREE_BUILT" /\ ~rd.lazy /\ Advance

ReturnArchive ==
    /\ \/ rd.pc = "TREE_BUILT" /\ rd.lazy
       \/ rd.pc = "DATA_LOADED"
    /\ Advance

ChecksumHelpers == {"file_md5", "header_md5"}

\* archive.metadata's helper which: validate()
Validate(which) ==
    /\ rd.pc = "DONE"
    /\ rd.driver \in {V2, V5}
    /\ \E r \in {Md5ChecksumHelper_validate(rd.archive[1].metadata[which],
                                            content)} :
          /\ cursor' = r.cursor
          /\ last' = Call("validate", which, r.raised, Some(r.digest), FALSE)
    /\ UNCHANGED <<content, file_defs, opts, files, pc, arch, rd, tocVars,
                   codecVars, langVars>>

NextRead ==
    \/ \E lazy \in BOOLEAN, decompress \in BOOLEAN : CallApi(lazy, decompress)
    \/ \E v \in Versions, lazy \in BOOLEAN, decompress \in BOOLEAN :
           CallDriver(v, lazy, decompress)
    \/ SniffVersion
    \/ ReadMagicWord
    \/ ReadVersion
    \/ ReadHeader
    \/ ReadTocHeader
    \/ ReadFooter
    \/ ReadDefinitions
    \/ ReadNames
    \/ AssembleTree
    \/ LoadData
    \/ ReturnArchive
    \/ \E which \in ChecksumHelpers : Validate(which)

SpecRead == InitRead /\ [][NextRead]_vars

\* ------------------------------------- the table of contents' specification
\* The definition arrays handed to assemble_io_from_defs are those of a
\* two-drive archive with up to MaxEdits of their fields or lengths changed.

MaxEdits == 2

\* The names by their offset in the name table "\0a\0b\0".
TocNames == (0 :> "") @@ (1 :> "a") @@ (3 :> "b")

\* Drive "data": folders 0..2 (the root and its two children), files 0..1;
\* drive "attrib": folder 3, file 2.
BaseToc ==
    [drive_defs |-> <<DriveDef("data", "d", 0, <<0, 3>>, <<0, 2>>),
                      DriveDef("attrib", "e", 3, <<3, 4>>, <<2, 3>>)>>,
     folder_defs |-> <<FolderDef(0, <<1, 3>>, <<0, 0>>),
                       FolderDef(1, <<3, 3>>, <<0, 1>>),
                       FolderDef(3, <<3, 3>>, <<1, 2>>),
                       FolderDef(0, <<4, 4>>, <<2, 3>>)>>,
     file_defs |-> <<FileDefABC(1, 0, 1, 1, STORE),
                     FileDefABC(3, 1, 1, 1, STORE),
                     FileDefABC(1, 2, 1, 1, STORE)>>,
     names |-> TocNames]

\* An edit sets one field of one definition, or the length of one array.
EditValues == 0..Len(BaseToc.folder_defs)

EditFields(array) ==
    CASE array = "drive_defs" ->
           {"root_folder", "folder_start", "folder_end", "file_start",
            "file_end"}
      [] array = "folder_defs" ->
           {"name_pos", "folder_start", "folder_end", "file_start", "file_end"}
      [] OTHER -> {"name_pos"}

Edits ==
    {[array |-> array, at |-> at, field |-> field, value |-> value] :
        array \in {"drive_defs", "folder_defs", "file_defs"},
        at \in 1..Len(BaseToc.folder_defs),
        field \in {"root_folder", "name_pos", "folder_start", "folder_end",
                   "file_start", "file_end", "count"},
        value \in EditValues}

\* The edits that name a field of a definition the arrays hold; the length
\* of an array is edited at its first place.
ValidEdit(e) ==
    IF e.field = "count" THEN e.at = 1
    ELSE /\ e.at <= Len(BaseToc[e.array])
         /\ e.field \in EditFields(e.array)

EditDef(def, field, value) ==
    CASE field = "folder_start" ->
           [def EXCEPT !.folder_range = <<value, def.folder_range[2]>>]
      [] field = "folder_end" ->
           [def EXCEPT !.folder_range = <<def.folder_range[1], value>>]
      [] field = "file_start" ->
           [def EXCEPT !.file_range = <<value, def.file_range[2]>>]
      [] field = "file_end" ->
           [def EXCEPT !.file_range = <<def.file_range[1], value>>]
      [] field = "root_folder" -> [def EXCEPT !.root_folder = value]
      [] OTHER -> [def EXCEPT !.name_pos = value]

\* The arrays after the edits of S that set fields
RECURSIVE EditFieldsOf(_, _)
EditFieldsOf(t, S) ==
    IF S = {} THEN t
    ELSE LET e == CHOOSE x \in S : TRUE
         IN EditFieldsOf(
                IF e.field = "count" THEN t
                ELSE [t EXCEPT ![e.array][e.at] = EditDef(@, e.field, e.value)],
                S \ {e})

\* ... and after those that set lengths
RECURSIVE EditCountsOf(_, _)
EditCountsOf(t, S) ==
    IF S = {} THEN t
    ELSE LET e == CHOOSE x \in S : TRUE
         IN EditCountsOf(
                IF e.field # "count" THEN t
                ELSE [t EXCEPT ![e.array] =
                         SubSeq(@, 1, Min(e.value, Len(@)))],
                S \ {e})

ApplyEdits(t, S) == EditCountsOf(EditFieldsOf(t, S), S)

\* The sets of at most k edits, no two of them of the same field
RECURSIVE EditSets(_)
EditSets(k) ==
    IF k = 0 THEN {{}}
    ELSE LET smaller == EditSets(k - 1)
             valid == {e \in Edits : ValidEdit(e)}
         IN smaller \cup
            UNION {{S \cup {e} :
                       e \in {x \in valid :
                                \A y \in S : <<y.array, y.at, y.field>>
                                               # <<x.array, x.at, x.field>>}} :
                   S \in smaller}

TocInputs == {ApplyEdits(BaseToc, S) : S \in EditSets(MaxEdits)}

InitToc ==
    /\ toc_defs \in {Some(t) : t \in TocInputs}
    /\ assembled = None
    /\ walked = None
    /\ name_table = None
    /\ name_map = None
    /\ content = <<>>
    /\ cursor = 0
    /\ file_defs = <<>>
    /\ opts = None
    /\ files = <<>>
    /\ pc = "start"
    /\ last = Call("init", 0, NoError, <<>>, FALSE)
    /\ arch = None
    /\ rd = IdleReader
    /\ IdleCodec
    /\ IdleLang

\* read_toc's last step: assemble_io_from_defs on the arrays and names
Assemble(decompress) ==
    /\ toc_defs # None
    /\ assembled = None
    /\ assembled' = Some(assemble_io_from_defs(toc_defs[1].drive_defs,
                                               toc_defs[1].folder_defs,
                                               toc_defs[1].file_defs,
                                               toc_defs[1].names, 0,
                                               decompress))
    /\ UNCHANGED <<fileVars, readVars, codecVars, langVars, toc_defs, walked,
                   name_table, name_map>>

\* Archive.walk() of the archive of the assembled drives, to its end
WalkArchive ==
    /\ assembled # None
    /\ assembled[1].raised = NoError
    /\ walked = None
    /\ walked' = Some(Archive_walk(assembled[1].drives, 1))
    /\ UNCHANGED <<fileVars, readVars, codecVars, langVars, toc_defs,
                   assembled, name_table, name_map>>

NextToc ==
    \/ \E decompress \in BOOLEAN : Assemble(decompress)
    \/ WalkArchive

SpecToc == InitToc /\ [][NextToc]_vars

\* ------------------------------------------- the name table's specification
\* read_toc_names_as_count on a stream that holds, at header_pos, a name table
\* of NUL-terminated strings, read in chunks of buffer_size bytes for a count
\* that is the number of the strings, or less, or one more.

MaxNames == 2
MaxNameLen == 2
MaxChunk == 3
MaxHeaderPos == 1
NameBytes == {97, 98}

RECURSIVE BytesUpTo(_)
BytesUpTo(n) ==
    IF n = 0 THEN {<<>>}
    ELSE BytesUpTo(n - 1)
           \cup {Append(b, c) : b \in {x \in BytesUpTo(n - 1) : Len(x) = n - 1},
                                c \in NameBytes}

RECURSIVE TablesUpTo(_)
TablesUpTo(n) ==
    IF n = 0 THEN {<<>>}
    ELSE TablesUpTo(n - 1)
           \cup {Append(t, b) : t \in {x \in TablesUpTo(n - 1) : Len(x) = n - 1},
                                b \in BytesUpTo(MaxNameLen)}

\* The bytes of a name table: each string and its NUL.
RECURSIVE NameTableBytes(_)
NameTableBytes(strings) ==
    IF strings = <<>> THEN <<>>
    ELSE Head(strings) \o <<NUL>> \o NameTableBytes(Tail(strings))

\* The stream: header_pos bytes, the name table, and what follows it.
NameStream(t) ==
    [k \in 1..t.header_pos |-> NUL] \o NameTableBytes(t.strings) \o t.after

InitNames ==
    /\ name_table \in UNION {{Some([strings |-> strings, count |-> count,
                                    buffer_size |-> buffer_size,
                                    header_pos |-> header_pos,
                                    after |-> after]) :
                                 count \in 0..(Len(strings) + 1),
                                 buffer_size \in 1..MaxChunk,
                                 header_pos \in 0..MaxHeaderPos,
                                 after \in {<<>>, <<98>>}} :
                             strings \in TablesUpTo(MaxNames)}
    /\ name_map = None
    /\ toc_defs = None
    /\ assembled = None
    /\ walked = None
    /\ content = <<>>
    /\ cursor = 0
    /\ file_defs = <<>>
    /\ opts = None
    /\ files = <<>>
    /\ pc = "start"
    /\ last = Call("init", 0, NoError, <<>>, FALSE)
    /\ arch = None
    /\ rd = IdleReader
    /\ IdleCodec
    /\ IdleLang

\* names = read_toc_names_as_count(stream, toc.name_info, header_pos,
\* buffer_size), the name table at offset 0 of the header
ReadNameTable ==
    /\ name_table # None
    /\ name_map = None
    /\ name_map' = Some(read_toc_names_as_count(
                            NameStream(name_table[1]),
                            <<0, name_table[1].count>>,
                            name_table[1].header_pos,
                            name_table[1].buffer_size))
    /\ UNCHANGED <<fileVars, readVars, codecVars, langVars, toc_defs,
                   assembled, walked, name_table>>

NextNames == ReadNameTable

SpecNames == InitNames /\ [][NextNames]_vars

\* -------------------------------------------- the serializers' specification
\* A value is packed by a version's serializer and the bytes are unpacked by
\* the same serializer.

NameUnits == {97, 256}

RECURSIVE NamesUpTo(_)
NamesUpTo(n) ==
    IF n = 0 THEN {<<>>}
    ELSE NamesUpTo(n - 1)
           \cup {Append(b, c) : b \in {x \in NamesUpTo(n - 1) : Len(x) = n - 1},
                                c \in NameUnits}

\* An archive header of version v with the name.
HeaderOf(v, name) ==
    CASE v = V2 -> [name |-> name, ptrs |-> ArchivePtrs(8, 3, 4, None),
                    file_md5 |-> 1, header_md5 |-> 2]
      [] v = V5 -> [name |-> name, ptrs |-> ArchivePtrs(5, 3, 4, None),
                    file_md5 |-> 1, header_md5 |-> 2, unk_a |-> 6]
      [] v = V7 -> [name |-> name, ptrs |-> ArchivePtrs(7, 3, 4, None)]
      [] OTHER -> [name |-> name, ptrs |-> ArchivePtrs(5, 3, 4, Some(6)),
                   sha_256 |-> 7]

HeaderInputs ==
    {[op |-> "header", version |-> v, value |-> HeaderOf(v, name)] :
        v \in Versions, name \in NamesUpTo(NameFieldChars)}

\* The modification times, verification modes and storage values on the wire.
ModifiedSeconds == {0, 2, 300}
VerificationValues == {0, 1}
StorageValues == {0, 1, 2, 3, 16, 32}

\* A file definition of version v.
FileDefOf(v, name_pos, storage_type, seconds, verification_value) ==
    CASE v = V2 -> FileDefABC(name_pos, 2, 3, 4, storage_type)
      [] v = V5 -> FileDefV5(name_pos, 2, 3, 4, storage_type,
                             datetime_fromtimestamp(seconds),
                             VerificationType_of(verification_value))
      [] OTHER -> FileDefV7(name_pos, 2, 3, 4, storage_type,
                            datetime_fromtimestamp(seconds),
                            VerificationType_of(verification_value), 5, 6)

FileInputs ==
    {[op |-> "file", version |-> v,
      value |-> FileDefOf(v, name_pos, storage_type, seconds, verification)] :
        v \in Versions, name_pos \in {0, 1}, storage_type \in StorageType,
        seconds \in ModifiedSeconds, verification \in VerificationValues}

\* The cells of a file definition on the wire: a, b and c are those after
\* the lengths (V2: c is the second cell).
FileCellsOf(v, a, b, c) ==
    CASE v = V2 -> <<1, c, 2, 3, 4>>
      [] v = V5 -> <<1, 2, 3, 4, a, b, c>>
      [] v = V7 -> <<1, 2, 3, 4, a, b, c, 5, 6>>
      [] OTHER -> <<1, 6, 2, 3, 4, a, b, c, 5>>

CellInputs ==
    {[op |-> "cells", version |-> v, value |-> FileCellsOf(v, a, b, c)] :
        v \in Versions, a \in ModifiedSeconds, b \in VerificationValues,
        c \in StorageValues}

InitCodec ==
    /\ \/ codec_in \in {Some(i) : i \in HeaderInputs}
       \/ codec_in \in {Some(i) : i \in FileInputs}
       \/ codec_in \in {Some(i) : i \in CellInputs}
    /\ codec_out = None
    /\ IdleLang
    /\ IdleToc
    /\ content = <<>>
    /\ cursor = 0
    /\ file_defs = <<>>
    /\ opts = None
    /\ files = <<>>
    /\ pc = "start"
    /\ last = Call("init", 0, NoError, <<>>, FALSE)
    /\ arch = None
    /\ rd = IdleReader

\* ArchiveHeaderSerializer.pack into an empty stream, seek(0), then unpack
HeaderRoundTrip ==
    /\ codec_in # None
    /\ codec_in[1].op = "header"
    /\ codec_out = None
    /\ codec_out' = Some(ArchiveHeader_unpack(
                             codec_in[1].version,
                             ArchiveHeader_pack(codec_in[1].version,
                                                codec_in[1].value), 0))
    /\ UNCHANGED <<fileVars, readVars, tocVars, langVars, codec_in>>

\* FileDefSerializer.pack into an empty stream, seek(0), then unpack:
\* [packed, unpacked]
FileRoundTrip ==
    /\ codec_in # None
    /\ codec_in[1].op = "file"
    /\ codec_out = None
    /\ codec_out' = The({
           Some([packed |-> packed,
                 unpacked |-> IF packed.raised # NoError
                              THEN [raised |-> packed.raised, val |-> <<>>,
                                    cursor |-> 0]
                              ELSE FileDef_unpack(codec_in[1].version,
                                                  packed.cells, 0)])
           : packed \in {FileDef_pack(codec_in[1].version, codec_in[1].value)}})
    /\ UNCHANGED <<fileVars, readVars, tocVars, langVars, codec_in>>

\* FileDefSerializer.unpack of the cells of a stream
FileUnpack ==
    /\ codec_in # None
    /\ codec_in[1].op = "cells"
    /\ codec_out = None
    /\ codec_out' = Some(FileDef_unpack(codec_in[1].version,
                                        codec_in[1].value, 0))
    /\ UNCHANGED <<fileVars, readVars, tocVars, langVars, codec_in>>

NextCodec ==
    \/ HeaderRoundTrip
    \/ FileRoundTrip
    \/ FileUnpack

SpecCodec == InitCodec /\ [][NextCodec]_vars

\* ------------------------------------------------------------------- ucs
\* A str is the sequence of its characters.  A UcsDict is the sequence of its
\* <<text-code, string>> items in the order of their insertion.

Whitespace == {" ", "\t", "\n"}

\* dict[k] = v: an item in the place its key has, or a new last item
UcsDict_set(data, k, v) ==
    IF \E i \in 1..Len(data) : data[i][1] = k
    THEN [i \in 1..Len(data) |-> IF data[i][1] = k THEN <<k, v>> ELSE data[i]]
    ELSE Append(data, <<k, v>>)

UcsDict_has(data, k) == \E i \in 1..Len(data) : data[i][1] = k

\* dict[k] of a key the dict has
UcsDict_get(data, k) == data[CHOOSE i \in 1..Len(data) : data[i][1] = k][2]

\* int(str) of a str without whitespace: [ok, num]; ok is FALSE for a
\* ValueError.  The digits are those the lines and paths here are made of.
RECURSIVE int(_)
int(str) ==
    LET digit(c) == CASE c = "0" -> 0 [] c = "1" -> 1 [] c = "2" -> 2
                      [] OTHER -> 0 - 1
    IN IF str = <<>> THEN [ok |-> FALSE, num |-> 0]
       ELSE IF digit(str[Len(str)]) < 0 THEN [ok |-> FALSE, num |-> 0]
       ELSE IF Len(str) = 1 THEN [ok |-> TRUE, num |-> digit(str[1])]
       ELSE LET more == int(SubSeq(str, 1, Len(str) - 1))
            IN [ok |-> more.ok, num |-> 10 * more.num + digit(str[Len(str)])]

\* The line parsed as UnicodeStringFile.read_stream does: [kind, num, str];
\* kind is "blank", "item" or ValueError.
ParseLine(line) ==
    LET first(str, S) == IF \E i \in 1..Len(str) : str[i] \in S
                         THEN CHOOSE i \in 1..Len(str) :
                                 /\ str[i] \in S
                                 /\ \A j \in 1..(i - 1) : str[j] \notin S
                         ELSE Len(str) + 1
        from(str, i) == SubSeq(str, i, Len(str))
        Other == {line[i] : i \in 1..Len(line)} \ Whitespace
        safe_line == from(line, first(line, Other))
        num_str == SubSeq(safe_line, 1, first(safe_line, Whitespace) - 1)
        after == from(safe_line, Len(num_str) + 1)
        rest == from(after, first(after, Other))
        line_str == bytes_rstrip(rest, {"\n"})
    IN IF safe_line = <<>> THEN [kind |-> "blank", num |-> 0, str |-> <<>>]
       ELSE IF ~int(num_str).ok
       THEN [kind |-> ValueError, num |-> 0, str |-> <<>>]
       ELSE [kind |-> "item", num |-> int(num_str).num, str |-> line_str]

\* UnicodeStringFile.read_stream(stream): [raised, data]
RECURSIVE UnicodeStringFile_read_stream(_, _)
UnicodeStringFile_read_stream(lines, ucs_file) ==
    IF lines = <<>> THEN [raised |-> NoError, data |-> ucs_file]
    ELSE LET parsed == ParseLine(Head(lines))
         IN IF parsed.kind = ValueError
            THEN [raised |-> ValueError, data |-> ucs_file]
            ELSE UnicodeStringFile_read_stream(
                     Tail(lines),
                     IF parsed.kind = "blank" THEN ucs_file
                     ELSE UcsDict_set(ucs_file, parsed.num, parsed.str))

\* An environment that replaces the string of a code it has, whatever
\* allow_replacement is.
LangEnvironment_setitem_replacing(allow_replacement, data, k, v) ==
    [raised |-> NoError, data |-> UcsDict_set(data, k, v)]

\* LangEnvironment.__setitem__(k, v): [raised, data]
LangEnvironment_setitem(allow_replacement, data, k, v) ==
    IF allow_replacement THEN [raised |-> NoError, data |-> UcsDict_set(data, k, v)]
    ELSE IF UcsDict_has(data, k) THEN [raised |-> ValueError, data |-> data]
    ELSE [raised |-> NoError, data |-> UcsDict_set(data, k, v)]

\* MutableMapping.update(other): self[key] = other[key] for each key of
\* other in its order, up to the first that raises: [raised, data]
RECURSIVE LangEnvironment_update(_, _, _)
LangEnvironment_update(allow_replacement, data, other) ==
    IF other = <<>> THEN [raised |-> NoError, data |-> data]
    ELSE LET set == LangEnvironment_setitem(allow_replacement, data,
                                            Head(other)[1], Head(other)[2])
         IN IF set.raised # NoError THEN set
            ELSE LangEnvironment_update(allow_replacement, set.data,
                                        Tail(other))

\* LangEnvironment.read_stream(stream), and read(file) of a file of these
\* lines: [raised, data]
LangEnvironment_read_stream(allow_replacement, data, lines) ==
    LET lang_file == UnicodeStringFile_read_stream(lines, <<>>)
    IN IF lang_file.raised # NoError
       THEN [raised |-> lang_file.raised, data |-> data]
       ELSE LangEnvironment_update(allow_replacement, data, lang_file.data)

\* os.path.split(p): <<head, tail>>
posix_split(path) ==
    LET slashes == {i \in 1..Len(path) : path[i] = "/"}
        i == IF slashes = {} THEN 0 ELSE CHOOSE m \in slashes : \A n \in slashes : n <= m
        head == SubSeq(path, 1, i)
    IN <<IF \E j \in 1..Len(head) : head[j] # "/"
         THEN bytes_rstrip(head, {"/"}) ELSE head,
         SubSeq(path, i + 1, Len(path))>>

\* os.path.splitext(p) of a path without a separator: <<root, ext>>; the
\* extension starts at the last dot that is not one of the leading dots.
posix_splitext(path) ==
    LET dots == {i \in 1..Len(path) : path[i] = "."}
        dot == IF dots = {} THEN 0 ELSE CHOOSE m \in dots : \A n \in dots : n <= m
    IN IF dot > 0 /\ \E j \in 1..(dot - 1) : path[j] # "."
       THEN <<SubSeq(path, 1, dot - 1), SubSeq(path, dot, Len(path))>>
       ELSE <<path, <<>>>>

\* os.path.join(a, b)
posix_join(a, b) ==
    IF b # <<>> /\ b[1] = "/" THEN b
    ELSE IF a = <<>> \/ a[Len(a)] = "/" THEN a \o b
    ELSE a \o <<"/">> \o b

\* str(num) of a num >= 0
RECURSIVE int_str(_)
int_str(num) ==
    LET digit == <<"0", "1", "2", "3", "4", "5", "6", "7", "8", "9">>
    IN IF num < 10 THEN <<digit[num + 1]>>
       ELSE int_str(num \div 10) \o <<digit[(num % 10) + 1]>>

\* [A-Za-z0-9_\- .]
SafeChars ==
    {"a", "b", "c", "d", "e", "f", "g", "h", "i", "j", "k", "l", "m", "n", "o",
     "p", "q", "r", "s", "t", "u", "v", "w", "x", "y", "z",
     "A", "B", "C", "D", "E", "F", "G", "H", "I", "J", "K", "L", "M", "N", "O",
     "P", "Q", "R", "S", "T", "U", "V", "W", "X", "Y", "Z",
     "0", "1", "2", "3", "4", "5", "6", "7", "8", "9", "_", "-", " ", "."}

\* _file_safe_string(word): the replacement is the default, ""
file_safe_string(word) == SelectSeq(word, LAMBDA c : c \in SafeChars)

max_len == 64
max_trim == 8

\* for char in chars: cut after the first char, as long as the string is
\* longer than max_len
RECURSIVE TrimAtChars(_, _)
TrimAtChars(replacement, chars) ==
    IF chars = <<>> \/ ~(Len(replacement) > max_len) THEN replacement
    ELSE LET at == {i \in 1..Len(replacement) : replacement[i] = Head(chars)}
             cut == IF at = {} THEN replacement
                    ELSE SubSeq(replacement, 1,
                                (CHOOSE m \in at : \A n \in at : m <= n) - 1)
         IN TrimAtChars(cut \o <<Head(chars)>>, Tail(chars))

\* for i in range(max_trim), from i on: [raised, str]; an index the string
\* has not is an IndexError
RECURSIVE TrimAtSpace(_, _)
TrimAtSpace(replacement, i) ==
    IF i >= max_trim THEN [raised |-> NoError, str |-> replacement]
    ELSE IF ~PyIndex(replacement, max_len - i - 1).ok
    THEN [raised |-> IndexError, str |-> replacement]
    ELSE TrimAtSpace(IF replacement[max_len - i] = " "
                     THEN SubSeq(replacement, 1, max_len - i)
                            \o <<".", ".", ".">>
                     ELSE replacement,
                     i + 1)

\* get_lang_string_for_file with the exceptions its try statement catches:
\* [raised, val].  environment is the data of a UcsDict.
lang_string_for_file(environment, file_path, caught) ==
    LET dir_path == posix_split(file_path)[1]
        f_path == posix_split(file_path)[2]
        file_name == posix_splitext(f_path)[1]
        ext == posix_splitext(f_path)[2]
        stem == IF file_name[Len(file_name)] = "b"
                THEN SubSeq(file_name, 1, Len(file_name) - 1) ELSE file_name
        num == int(stem).num
        replacement == UcsDict_get(environment, num)
        cut == TrimAtChars(replacement, <<".", "!", "?">>)
        trimmed == IF Len(cut) > max_len THEN TrimAtSpace(cut, 0)
                   ELSE [raised |-> NoError, str |-> cut]
        short == IF Len(trimmed.str) > max_len
                 THEN SubSeq(trimmed.str, 1, max_len) \o <<".", ".", ".">>
                 ELSE trimmed.str
    IN IF file_name = <<>>
       THEN IF IndexError \in caught
            THEN [raised |-> NoError, val |-> file_path]
            ELSE [raised |-> IndexError, val |-> <<>>]
       ELSE IF ~int(stem).ok
       THEN IF ValueError \in caught
            THEN [raised |-> NoError, val |-> file_path]
            ELSE [raised |-> ValueError, val |-> <<>>]
       ELSE IF ~UcsDict_has(environment, num) THEN [raised |-> NoError, val |-> file_path]
       ELSE IF replacement = <<>> THEN [raised |-> NoError, val |-> file_path]
       ELSE IF trimmed.raised # NoError
       THEN [raised |-> trimmed.raised, val |-> <<>>]
       ELSE [raised |-> NoError,
             val |-> posix_join(dir_path,
                                file_safe_string(short)
                                  \o <<" ", "~", " ", "C", "l", "i", "p", " ">>
                                  \o int_str(num) \o ext)]

\* The function with a try statement that catches the ValueError only.
get_lang_string_index_uncaught(environment, file_path) ==
    lang_string_for_file(environment, file_path, {ValueError})

\* get_lang_string_for_file(environment, file_path)
get_lang_string_for_file(environment, file_path) ==
    lang_string_for_file(environment, file_path, {ValueError, IndexError})

\* ------------------------------------ the language environment's specification

MaxCalls == 2
MaxLines == 2

UcsLines ==
    {<<"1", "\t", "a", "\n">>, <<"1", " ", "b", "\n">>,
     <<"2", "\t", "a", " ", "\n">>, <<" ", "2", " ", "b">>, <<"\n">>,
     <<"a", "\n">>, <<"1", "2", "\n">>}

RECURSIVE UcsStreams(_)
UcsStreams(n) ==
    IF n = 0 THEN {<<>>}
    ELSE UcsStreams(n - 1)
           \cup {Append(t, l) : t \in {x \in UcsStreams(n - 1) : Len(x) = n - 1},
                                l \in UcsLines}

\* lang: the environment, with every assignment that was made to it, in
\* order, and the number of the calls.
InitLang ==
    /\ lang \in {Some([allow_replacement |-> a, data |-> <<>>,
                       assigned |-> <<>>, calls |-> 0]) : a \in BOOLEAN}
    /\ lang_out = None
    /\ IdleCodec
    /\ IdleToc
    /\ content = <<>>
    /\ cursor = 0
    /\ file_defs = <<>>
    /\ opts = None
    /\ files = <<>>
    /\ pc = "start"
    /\ last = Call("init", 0, NoError, <<>>, FALSE)
    /\ arch = None
    /\ rd = IdleReader

\* The items of after that before has not, or has with another string
Assigned(before, after) ==
    SelectSeq(after, LAMBDA item : ~(UcsDict_has(before, item[1])
                                     /\ UcsDict_get(before, item[1]) = item[2]))

Called(op, r) ==
    /\ lang' = Some([lang[1] EXCEPT
                        !.data = r.data,
                        !.assigned = @ \o Assigned(lang[1].data, r.data),
                        !.calls = @ + 1])
    /\ lang_out' = Some([op |-> op, raised |-> r.raised,
                         before |-> lang[1].data])
    /\ UNCHANGED <<fileVars, readVars, tocVars, codecVars>>

\* lang_env[k] = v
SetItem(k, v) ==
    /\ lang # None
    /\ lang[1].calls < MaxCalls
    /\ Called([name |-> "setitem", k |-> k, v |-> v, lines |-> <<>>],
              LangEnvironment_setitem(lang[1].allow_replacement, lang[1].data,
                                      k, v))

\* lang_env.read_stream(stream); lang_env.read(file)
ReadStream(lines) ==
    /\ lang # None
    /\ lang[1].calls < MaxCalls
    /\ Called([name |-> "read_stream", k |-> 0, v |-> <<>>, lines |-> lines],
              LangEnvironment_read_stream(lang[1].allow_replacement,
                                          lang[1].data, lines))

NextLang ==
    \/ \E k \in {1, 2}, v \in {<<>>, <<"a">>, <<"b">>} : SetItem(k, v)
    \/ \E lines \in UcsStreams(MaxLines) : ReadStream(lines)

SpecLang == InitLang /\ [][NextLang]_vars

\* ------------------------------------------ the clip names' specification
\* get_lang_string_for_file of the paths of up to MaxPathLen characters in
\* environments that have no string, an empty one, a short one, and long ones.

MaxPathLen == 3
PathChars == {"1", "2", "b", ".", "/"}

RECURSIVE PathsUpTo(_)
PathsUpTo(n) ==
    IF n = 0 THEN {<<>>}
    ELSE PathsUpTo(n - 1)
           \cup {Append(b, c) : b \in {x \in PathsUpTo(n - 1) : Len(x) = n - 1},
                                c \in PathChars}

Repeat(word, n) == [i \in 1..(n * Len(word)) |-> word[((i - 1) % Len(word)) + 1]]

Environments ==
    {<<>>,
     <<<<1, <<>>>>>>,
     <<<<1, <<"a", "/", "b", ":", "?">>>>, <<2, Repeat(<<"x">>, 70)>>>>,
     <<<<1, Repeat(<<"w", "o", "r", "d", " ">>, 14)>>,
       <<2, Repeat(<<"y">>, 60) \o <<" ", " ", " ", " ", "z", "!", " ">>
              \o Repeat(<<"z">>, 6)>>>>,
     <<<<1, Repeat(<<" ">>, 66)>>,
       <<2, Repeat(<<"a", ".">>, 40)>>,
       <<12, Repeat(<<"q">>, 59) \o <<" ">> \o Repeat(<<"q">>, 9)>>>>}

InitClip ==
    /\ lang \in {Some([allow_replacement |-> FALSE, data |-> data,
                       assigned |-> data, calls |-> 0]) : data \in Environments}
    /\ lang_out = None
    /\ IdleCodec
    /\ IdleToc
    /\ content = <<>>
    /\ cursor = 0
    /\ file_defs = <<>>
    /\ opts = None
    /\ files = <<>>
    /\ pc = "start"
    /\ last = Call("init", 0, NoError, <<>>, FALSE)
    /\ arch = None
    /\ rd = IdleReader

\* get_lang_string_for_file(lang_env, file_path)
GetLangString(file_path) ==
    /\ lang # None
    /\ lang_out = None
    /\ lang_out' = The({Some([op |-> [name |-> "get_lang_string_for_file",
                                      file_path |-> file_path],
                              raised |-> r.raised, val |-> r.val]) :
                        r \in {get_lang_string_for_file(lang[1].data,
                                                        file_path)}})
    /\ UNCHANGED <<fileVars, readVars, tocVars, codecVars, lang>>

NextClip == \E file_path \in PathsUpTo(MaxPathLen) : GetLangString(file_path)

SpecClip == InitClip /\ [][NextClip]_vars

\* ------------------------------------------------------------ properties

DecompressArgs == {None, Some(TRUE), Some(FALSE)}

\* The bytes the stream holds at [pos, pos + n), as far as the stream goes.
StoredAt(cont, pos, n) ==
    [k \in 1..Max(0, Min(n, Len(cont) - pos)) |-> cont[pos + k]]

\* The bytes are a well-framed DEFLATE stream.
IsDeflate(b) == zlib_decompress(b).ok

\* A step that runs FileLazyInfo.read: directly, through the first access of
\* file.data, or through load_lazy_data in a read that is not lazy.
LazyReadStep ==
    \/ \E i \in DOMAIN files, d \in DecompressArgs : LazyRead(i, d)
    \/ \E i \in DOMAIN files :
          files[i].data = None /\ files[i].lazy_info # None /\ GetData(i)
    \/ \E decompress \in BOOLEAN : Read(FALSE, decompress)

\* C1: every call of FileLazyInfo.read, whether it returns or raises, leaves
\* the shared stream's cursor where it was before the call.
C1_CursorNeutral == [][LazyReadStep => cursor' = cursor]_vars

\* C2: a successful file.data leaves the file materialized with its lazy
\* handle dropped; from then on the cached bytes stay as they are while the
\* stream's cursor and content change, and every file.data returns them
\* without using the stream.
C2_CachedReads ==
    [][\A i \in DOMAIN files :
        /\ (GetData(i) /\ last'.raised = NoError) =>
              /\ files'[i].data = Some(last'.val)
              /\ files[i].data = None => files'[i].lazy_info = None
        /\ (pc = "decoded" /\ files[i].data # None) =>
              /\ files'[i] = files[i]
              /\ GetData(i) =>
                    /\ last'.raised = NoError
                    /\ last'.val = files[i].data[1]
                    /\ ~last'.touched
                    /\ cursor' = cursor /\ content' = content]_vars

\* C2 witness: a file.data served from the cache after the stream changed:
\* the bytes returned are no longer what the stream holds for the file.
C2_Witness ==
    /\ pc = "decoded" /\ opts[1].lazy
    /\ last.op = "data" /\ last.raised = NoError /\ ~last.touched
    /\ files[1].data = Some(last.val) /\ files[1].lazy_info = None
    /\ cursor # 0
    /\ last.val # StoredAt(content, file_defs[1].data_pos,
                           file_defs[1].length_in_archive)
    /\ file_defs[1].length_in_archive = file_defs[1].length_on_disk

\* C3: once every file of a lazily decoded archive has been read through
\* file.data, in whatever order and between whatever seeks, the files are
\* those of decoding the same stream with lazy=false; and a lazy read raises
\* only where the eager decode raises.
C3_LazyEquivalence ==
    (pc = "decoded" /\ opts[1].lazy) =>
        LET eager == ReadFiles(file_defs, FileNames, 0, content, 0, FALSE,
                               opts[1].decompress)
        IN /\ (\A i \in DOMAIN files : files[i].data # None) =>
                  (eager.raised = NoError /\ eager.files = files)
           /\ (last.op = "data" /\ last.raised # NoError) =>
                  eager.raised # NoError

\* C3 witness: both files read, the second one first, with the cursor moved
\* by the caller, one of them inflated.
C3_Witness ==
    /\ pc = "decoded" /\ opts[1].lazy /\ opts[1].decompress
    /\ \A i \in DOMAIN files : files[i].data # None
    /\ last.op = "data" /\ last.file = 1
    /\ cursor = StreamLen
    /\ file_defs[2].length_in_archive # file_defs[2].length_on_disk
    /\ file_defs[1].length_in_archive > 0

\* A file definition the stream bears out: the payload is all there, a STORE
\* payload is plain bytes of the declared length, a compressed payload is a
\* DEFLATE stream that inflates to plain bytes of the declared length.
Unambiguous(def, cont) ==
    LET raw == StoredAt(cont, def.data_pos, def.length_in_archive)
    IN /\ Len(raw) = def.length_in_archive
       /\ \/ /\ def.storage_type = STORE
             /\ def.length_in_archive = def.length_on_disk
             /\ ~IsDeflate(raw)
          \/ /\ def.storage_type # STORE
             /\ def.length_in_archive # def.length_on_disk
             /\ IsDeflate(raw)
             /\ Len(zlib_decompress(raw).val) = def.length_on_disk
             /\ ~IsDeflate(zlib_decompress(raw).val)

\* C4: whatever reads, compress() and decompress() calls were made, a file's
\* is_compressed is true exactly when its payload is in DEFLATE form.  Stated
\* for the files whose definition the stream bears out, where the form of the
\* payload is beyond doubt.
C4_FlagTracksPayload ==
    pc = "decoded" =>
        \A i \in DOMAIN files :
            (files[i].data # None /\ Unambiguous(file_defs[i], content)) =>
                (files[i].is_compressed <=> IsDeflate(files[i].data[1]))

\* C5: a lazy read returns the packed_size bytes stored at jump_to as they are
\* when decompress is false or the two sizes are equal, whatever the storage
\* type, and the inflated bytes only when decompress is true and the sizes
\* differ.
C5_ReadResult ==
    [][\A i \in DOMAIN files, d \in DecompressArgs :
        (pc = "decoded" /\ files[i].lazy_info # None /\ LazyRead(i, d)) =>
            LET def == file_defs[i]
                stored == StoredAt(content, def.data_pos, def.length_in_archive)
                decompress == IF d = None THEN opts[1].decompress ELSE d[1]
            IN IF ~decompress \/ def.length_in_archive = def.length_on_disk
               THEN last'.raised = NoError /\ last'.val = stored
               ELSE last'.raised = NoError =>
                       /\ IsDeflate(stored)
                       /\ last'.val = zlib_decompress(stored).val
                       /\ Len(last'.val) = def.length_on_disk]_vars

\* C5 witness: a file declared compressed whose sizes are equal was read with
\* decompress true and came back as stored.
C5_Witness ==
    /\ pc = "decoded" /\ opts[1].decompress
    /\ last.op = "lazy_read" /\ last.raised = NoError
    /\ files[1].lazy_info # None
    /\ file_defs[1].storage_type = BUFFER_COMPRESS
    /\ file_defs[1].length_in_archive = file_defs[1].length_on_disk
    /\ Len(last.val) = MaxUnpacked
    /\ IsDeflate(last.val)

\* C6: with decompress true, differing sizes and a payload that inflates to
\* another length than unpacked_size, the first file.data raises
\* DecompressedSizeMismatch and leaves the file as it was: no data, the lazy
\* handle kept, so that the next file.data reads the stream again.
C6_MismatchKeepsHandle ==
    [][\A i \in DOMAIN files :
        (pc = "decoded" /\ files[i].data = None /\ files[i].lazy_info # None
            /\ GetData(i)) =>
            LET info == files[i].lazy_info[1]
                stored == StoredAt(content, info.jump_to, info.packed_size)
            IN (/\ info.decompress
                /\ info.packed_size # info.unpacked_size
                /\ IsDeflate(stored)
                /\ Len(zlib_decompress(stored).val) # info.unpacked_size) =>
                   /\ last'.raised = DecompressedSizeMismatch
                   /\ last'.touched
                   /\ files'[i] = files[i]]_vars

\* C6 witness: file.data has raised DecompressedSizeMismatch after reading the
\* payload, and the file is still pending.
C6_Witness ==
    /\ pc = "decoded"
    /\ last.op = "data" /\ last.raised = DecompressedSizeMismatch
    /\ last.touched
    /\ files[1].data = None /\ files[1].lazy_info # None
    /\ cursor = files[1].lazy_info[1].jump_to + files[1].lazy_info[1].packed_size

\* C7: on a materialized, uncompressed file compress() then decompress() give
\* back the payload and the flag; compress() on a compressed file and
\* decompress() on an uncompressed one change nothing.
C7_RoundTrip ==
    [][\A i \in DOMAIN files :
        (pc = "decoded" /\ files[i].data # None) =>
            /\ (~files[i].is_compressed /\ CompressDecompress(i)) =>
                  /\ last'.raised = NoError
                  /\ files'[i] = files[i]
            /\ (~files[i].is_compressed /\ Compress(i)) =>
                  /\ files'[i].is_compressed
                  /\ zlib_decompress(files'[i].data[1]) =
                        [ok |-> TRUE, val |-> files[i].data[1]]
            /\ (files[i].is_compressed /\ Compress(i)) => files'[i] = files[i]
            /\ (~files[i].is_compressed /\ Decompress(i)) =>
                  files'[i] = files[i]]_vars

\* C7 witness: compress() then decompress() ran on a materialized file that
\* holds a non-empty plain payload.
C7_Witness ==
    /\ pc = "decoded"
    /\ last.op = "compress_decompress" /\ last.raised = NoError
    /\ ~last.touched
    /\ files[1].data # None /\ ~files[1].is_compressed
    /\ Len(files[1].data[1]) = MaxPacked

\* An archive without damage whose payload is what its definition declares.
WellFormed(a) ==
    /\ a.faults = {}
    /\ \/ a.payload.storage_type = STORE
       \/ Len(zlib_decompress(a.payload.stored).val) = a.payload.length_on_disk

\* C8: called on a stream at the start of a well-formed archive of a
\* supported version, _apis.read ends as the matching driver's read ends when
\* it is called on that stream from its start: it returns the same archive.
C8_ApiMatchesDriver ==
    (arch # None /\ rd.entry = "api" /\ rd.pc \in Final /\ WellFormed(arch[1])) =>
        LET d == ArchiveSerializer_read(arch[1].version, content, 0, rd.lazy,
                                        rd.decompress).rs
        IN /\ d.pc = "DONE"
           /\ rd.pc = "DONE"
           /\ rd.archive = d.archive

\* The steps of read in their order; the data load is the eager mode's, the
\* footer V7's and V9's.
StepOrder(v, lazy) ==
    {<<"START", "MAGIC_OK">>, <<"MAGIC_OK", "VERSION_OK">>,
     <<"VERSION_OK", "HEADER_PARSED">>, <<"HEADER_PARSED", "TOC_PARSED">>,
     <<"DEFS_READ", "NAMES_READ">>, <<"NAMES_READ", "TREE_BUILT">>}
    \cup (IF v \in {V7, V9}
          THEN {<<"TOC_PARSED", "FOOTER_PARSED">>, <<"FOOTER_PARSED", "DEFS_READ">>}
          ELSE {<<"TOC_PARSED", "DEFS_READ">>})
    \cup (IF lazy THEN {<<"TREE_BUILT", "DONE">>}
          ELSE {<<"TREE_BUILT", "DATA_LOADED">>, <<"DATA_LOADED", "DONE">>})

\* What each step that did not fail has read or built, and what is still to
\* come.
StepProduct(r, cur) ==
    /\ r.pc = "MAGIC_OK" => cur = 1
    /\ r.pc = "VERSION_OK" => cur = 3 /\ r.header = None
    /\ r.pc = "HEADER_PARSED" => r.header # None /\ r.toc = None
    /\ r.pc = "TOC_PARSED" =>
          r.toc # None /\ r.footer = None /\ r.drive_defs = <<>>
    /\ r.pc = "FOOTER_PARSED" => r.footer # None /\ r.drive_defs = <<>>
    /\ r.pc = "DEFS_READ" =>
          /\ r.toc # None
          /\ Len(r.drive_defs) = r.toc[1].drive_info[2]
          /\ Len(r.file_defs) = r.toc[1].file_info[2]
          /\ DOMAIN r.names = {}
    /\ r.pc = "NAMES_READ" =>
          /\ Cardinality(DOMAIN r.names) = r.toc[1].name_info[2]
          /\ r.drives = <<>>
    /\ r.pc = "TREE_BUILT" =>
          /\ Len(r.drives) = Len(r.drive_defs)
          /\ \A d \in DOMAIN r.drives : \A k \in DOMAIN r.drives[d].all_files :
                r.drives[d].all_files[k].data = None
    /\ r.pc \in {"DATA_LOADED", "DONE"} /\ ~r.lazy =>
          \A d \in DOMAIN r.drives : \A k \in DOMAIN r.drives[d].all_files :
             r.drives[d].all_files[k].data # None

\* The error of the first step of the driver of version v that fails on
\* archive a, NoError when every step succeeds.
FirstFailure(a, v, lazy, decompress) ==
    IF "magic" \in a.faults THEN MagicWordMismatch
    ELSE IF "tag" \in a.faults \/ a.version # v THEN VersionMismatchError
    ELSE IF "rsv" \in a.faults /\ v # V2 THEN MismatchError
    ELSE IF "trunc" \in a.faults THEN StructError
    ELSE IF "storage" \in a.faults
    THEN (IF v = V2 THEN KeyError ELSE ValueError)
    ELSE IF "names" \in a.faults THEN RanOutOfData
    ELSE IF "name_pos" \in a.faults THEN KeyError
    ELSE IF "root" \in a.faults THEN IndexError
    ELSE IF ~lazy /\ decompress /\ ~WellFormed([a EXCEPT !.faults = {}])
    THEN DecompressedSizeMismatch
    ELSE NoError

C9_Outcome ==
    (arch # None /\ rd.entry = "driver") =>
        /\ rd.archive # None <=> rd.pc = "DONE"
        /\ rd.pc = "FAILED" <=> rd.error # NoError
        /\ rd.pc \in Final =>
              rd.error = FirstFailure(arch[1], rd.driver, rd.lazy, rd.decompress)
        /\ StepProduct(rd, cursor)

C9_Order ==
    (rd.entry = "driver" /\ rd'.pc # rd.pc /\ rd.pc # "IDLE") =>
        \/ rd'.pc = "FAILED"
        \/ <<rd.pc, rd'.pc>> \in StepOrder(rd.driver, rd.lazy)

\* C9: a driver's read takes its steps in the order magic word, version tag,
\* header with its reserved fields, TOC header, definitions, names, tree and,
\* in eager mode, data load; the first step that fails raises its error, a
\* tag other than the driver's version VersionMismatchError, and read returns
\* an Archive only when every step succeeded.
C9_StepOrder == []C9_Outcome /\ [][C9_Order]_vars

\* C9 witness: an eager read that built the tree and then failed in the data
\* load, the last step, and returned no Archive.
C9_Witness ==
    /\ rd.entry = "driver" /\ rd.pc = "FAILED" /\ ~rd.lazy
    /\ rd.error = DecompressedSizeMismatch
    /\ rd.drives # <<>>
    /\ rd.archive = None

\* The stream with other digests in the file-MD5 and header-MD5 fields of a
\* V2 or V5 header: the cells before and after the name's.
WithDigests(cont, file_md5, header_md5) ==
    [cont EXCEPT ![4] = file_md5, ![5 + NameFieldLen] = header_md5]

\* The cells a helper's window covers.
Window(cont, helper) ==
    IF helper.size = None THEN SubSeq(cont, helper.start + 1, Len(cont))
    ELSE SubSeq(cont, helper.start + 1,
                Min(helper.start + helper.size[1], Len(cont)))

C10_ReadIgnoresDigests ==
    (arch # None /\ rd.entry = "driver" /\ rd.driver \in {V2, V5}
        /\ rd.driver = arch[1].version /\ rd.pc \in Final) =>
        \A f \in 0..(HashMod - 1), h \in 0..(HashMod - 1) :
            LET d == ArchiveSerializer_read(rd.driver,
                                            WithDigests(content, f, h), 0,
                                            rd.lazy, rd.decompress).rs
            IN /\ d.pc = rd.pc
               /\ d.error = rd.error
               /\ d.drives = rd.drives

C10_ValidateOutcome ==
    (arch # None /\ last'.op = "validate") =>
        LET helper == rd.archive[1].metadata[last'.file]
            stored == IF last'.file = "file_md5" THEN content[4]
                      ELSE content[5 + NameFieldLen]
        IN (last'.raised = MD5MismatchError) <=>
              (stored # md5(helper.eigen[1] \o Window(content, helper)))

\* C10: the V2 and V5 reads end the same way and with the same tree whatever
\* the digests stored in the header are, and a later validate() of a helper
\* raises MD5MismatchError exactly when the stored digest is not the hash of
\* the helper's salt followed by the helper's window.
C10_ValidationOptIn == []C10_ReadIgnoresDigests /\ [][C10_ValidateOutcome]_vars

\* C10 witness: a V5 read returned the archive although the stored header-MD5
\* had drifted, and validate() of a helper then raised the mismatch.
C10_Witness ==
    /\ arch # None /\ arch[1].header_drift # 0
    /\ rd.pc = "DONE" /\ rd.driver = V5
    /\ last.op = "validate" /\ last.raised = MD5MismatchError

\* What a helper feeds to the hash: its salt, then the chunks it reads.
HashInput(helper, cont) ==
    (IF helper.eigen # None THEN helper.eigen[1] ELSE <<>>)
        \o chunked_read(cont, helper.start, helper.size, 256 * KiB).data

\* The bytes of the stream from offset from up to, not including, offset to.
Bytes(cont, from, to) == SubSeq(cont, from + 1, Min(to, Len(cont)))

\* C11: for V2 and V5, the header-MD5 helper built by read hashes the header
\* salt followed by exactly the bytes [header_pos, header_pos + header_size),
\* and the file-MD5 helper hashes the file salt followed by the bytes from
\* header_pos to the end of the stream.
C11_HelperWindows ==
    (arch # None /\ rd.pc = "DONE" /\ rd.driver \in {V2, V5}) =>
        LET ptrs == rd.header[1].ptrs
            metadata == rd.archive[1].metadata
            header_input == HEADER_MD5_EIGEN
                              \o Bytes(content, ptrs.header_pos,
                                       ptrs.header_pos + ptrs.header_size)
            file_input == FILE_MD5_EIGEN
                              \o Bytes(content, ptrs.header_pos, Len(content))
        IN /\ HashInput(metadata.header_md5, content) = header_input
           /\ Md5ChecksumHelper_read(metadata.header_md5, content).digest
                 = md5(header_input)
           /\ HashInput(metadata.file_md5, content) = file_input
           /\ Md5ChecksumHelper_read(metadata.file_md5, content).digest
                 = md5(file_input)

\* Where the parents of a node lead: to the drive, to a node without a
\* parent, or round in a circle.
RECURSIVE ChainEnd(_, _, _)
ChainEnd(drive, parent, frames) ==
    IF parent = None THEN "none"
    ELSE IF parent[1] = <<"drive">> THEN "drive"
    ELSE IF frames = 0 THEN "loop"
    ELSE ChainEnd(drive, drive.folders[parent[1][2]].parent, frames - 1)

\* C12: in an archive assembled without error from the definition arrays,
\* every file that Archive.walk() yields has a chain of parents that ends at
\* a drive of archive.drives.
C12_ParentClosure ==
    walked # None =>
        \A j \in 1..Len(walked[1].steps) :
            LET step == walked[1].steps[j]
                drive == assembled[1].drives[step.drive]
            IN \A i \in 1..Len(step.files) :
                  ChainEnd(drive, drive.all_files[step.files[i]].parent,
                           Len(drive.folders)) = "drive"

\* The places a list of places holds.
Places(seq) == {seq[j] : j \in 1..Len(seq)}

\* The folders of a drive that sub_folders lead to from the folders of S.
RECURSIVE ReachFrom(_, _)
ReachFrom(drive, S) ==
    LET more == S \cup UNION {Places(drive.folders[k].sub_folders) : k \in S}
    IN IF more = S THEN S ELSE ReachFrom(drive, more)

\* The containers of a drive's structure: the drive and the folders below it.
Containers(drive) ==
    {<<"drive">>} \cup
    {<<"folder", k>> : k \in ReachFrom(drive, Places(drive.sub_folders))}

ChildFolders(drive, c) ==
    IF c = <<"drive">> THEN Places(drive.sub_folders)
    ELSE Places(drive.folders[c[2]].sub_folders)

ChildFiles(drive, c) ==
    IF c = <<"drive">> THEN Places(drive.files)
    ELSE Places(drive.folders[c[2]].files)

IsTree(drive) ==
    /\ \A c \in Containers(drive) :
          c # <<"drive">> =>
              c[2] \notin ReachFrom(drive, ChildFolders(drive, c))
    /\ \A c1, c2 \in Containers(drive) :
          c1 # c2 =>
              /\ ChildFolders(drive, c1) \cap ChildFolders(drive, c2) = {}
              /\ ChildFiles(drive, c1) \cap ChildFiles(drive, c2) = {}

\* C13: definition arrays that assemble without error give a tree: no folder
\* is reachable from itself through sub_folders, and no folder or file is in
\* the child lists of two different containers.
C13_Tree ==
    (assembled # None /\ assembled[1].raised = NoError) =>
        \A d \in 1..Len(assembled[1].drives) : IsTree(assembled[1].drives[d])

\* The ways down from a drive: the sequences of at most n folders, the first
\* a sub-folder of the drive and each next a sub-folder of the one before.
RECURSIVE Trails(_, _)
Trails(drive, n) ==
    IF n = 0 THEN {}
    ELSE LET shorter == Trails(drive, n - 1)
         IN {<<k>> : k \in Places(drive.sub_folders)} \cup shorter \cup
            UNION {{Append(c, k) :
                       k \in Places(drive.folders[c[Len(c)]].sub_folders)} :
                   c \in shorter}

\* The drive's path joined with the names of the folders of a way down.
RECURSIVE Along(_, _)
Along(drive, c) ==
    IF c = <<>> THEN Drive_path(drive).path
    ELSE PurePath_join(Along(drive, SubSeq(c, 1, Len(c) - 1)),
                       drive.folders[c[Len(c)]].name)

\* Path identity in one drive, of the nodes among yielded.
PathIdentity(drive, yielded) ==
    /\ \A i \in Places(drive.files) :
          File_path(drive, i) =
              [raised |-> NoError,
               path |-> PurePath_join(Along(drive, <<>>),
                                      drive.all_files[i].name)]
    /\ \A c \in Trails(drive, Len(drive.folders)) :
          (\A j \in 1..Len(c) : <<"folder", c[j]>> \in yielded) =>
              /\ Folder_path(drive, c[Len(c)]) =
                     [raised |-> NoError, path |-> Along(drive, c)]
              /\ \A i \in Places(drive.folders[c[Len(c)]].files) :
                    File_path(drive, i) =
                        [raised |-> NoError,
                         path |-> PurePath_join(Along(drive, c),
                                                drive.all_files[i].name)]

\* C14: the path of every folder and file that Archive.walk() yields is the
\* drive's path "<alias>:" joined with the names of the containers met on the
\* way from the drive down to the node, ending with the node's own name.
C14_PathIdentity ==
    walked # None =>
        \A d \in 1..Len(assembled[1].drives) :
            PathIdentity(assembled[1].drives[d],
                         {walked[1].steps[j].self :
                            j \in {h \in 1..Len(walked[1].steps) :
                                     walked[1].steps[h].drive = d}})

\* The half-open range r lies inside the half-open range outer.
Inside(r, outer) == outer[1] <= r[1] /\ r[1] <= r[2] /\ r[2] <= outer[2]

\* How many of the indices lo..hi-1 an array of n definitions has.
Held(lo, hi, n) == Cardinality({g \in lo..(hi - 1) : g < n})

\* The file at a place of the drive's list was built from the definition def.
BuiltFromFile(t, drive, place, def) ==
    /\ place \in 1..Len(drive.all_files)
    /\ drive.all_files[place].name = t.names[def.name_pos]
    /\ drive.all_files[place].lazy_info # None
    /\ drive.all_files[place].lazy_info[1].jump_to = def.data_pos

\* C15 for the folder at place p of the drive assembled from drive_def
FolderSlices(t, drive_def, drive, p) ==
    LET def == t.folder_defs[drive_def.folder_range[1] + p]
        folder == drive.folders[p]
        a == def.file_range[1]
        c == def.folder_range[1]
    IN (Inside(def.file_range, drive_def.file_range)
          /\ Inside(def.folder_range, drive_def.folder_range)) =>
          /\ Len(folder.files) = Held(a, def.file_range[2], Len(t.file_defs))
          /\ \A j \in 1..Len(folder.files) :
                /\ folder.files[j] = a - drive_def.file_range[1] + j
                /\ BuiltFromFile(t, drive, folder.files[j], t.file_defs[a + j])
          /\ Len(folder.sub_folders)
                = Held(c, def.folder_range[2], Len(t.folder_defs))
          /\ \A j \in 1..Len(folder.sub_folders) :
                /\ folder.sub_folders[j] = c - drive_def.folder_range[1] + j
                /\ drive.folders[folder.sub_folders[j]].name
                      = t.names[t.folder_defs[c + j].name_pos]

\* The data positions of the files a walk yielded in drive d
YieldedFiles(d) ==
    {assembled[1].drives[d].all_files[i].lazy_info[1].jump_to :
        i \in UNION {Places(walked[1].steps[j].files) :
                        j \in {h \in 1..Len(walked[1].steps) :
                                 walked[1].steps[h].drive = d}}}

\* C15: in a drive with file range [fs, fe) and folder range [ds, de), a
\* folder definition of the drive whose file range [a, b) lies in [fs, fe) and
\* whose folder range [c, d) lies in [ds, de) gives a folder whose files are
\* the files built from the global file definitions a..b-1, in that order,
\* and whose sub-folders are the folders built from the global folder
\* definitions c..d-1, in that order; the drive's lists are those of the
\* folder root_folder of its range; and two drives of disjoint file ranges
\* have no file in common in a walk.
C15_RebasedSlices ==
    (assembled # None /\ assembled[1].raised = NoError) =>
        /\ \A d \in 1..Len(assembled[1].drives) :
              LET drive_def == toc_defs[1].drive_defs[d]
                  drive == assembled[1].drives[d]
                  root == drive_def.root_folder - drive_def.folder_range[1] + 1
              IN /\ \A p \in 1..Len(drive.folders) :
                        FolderSlices(toc_defs[1], drive_def, drive, p)
                 /\ (drive_def.folder_range[1] <= drive_def.root_folder
                       /\ drive_def.root_folder < drive_def.folder_range[2]) =>
                        /\ root \in 1..Len(drive.folders)
                        /\ drive.sub_folders = drive.folders[root].sub_folders
                        /\ drive.files = drive.folders[root].files
        /\ walked # None =>
              \A d1, d2 \in 1..Len(assembled[1].drives) :
                  LET r1 == toc_defs[1].drive_defs[d1].file_range
                      r2 == toc_defs[1].drive_defs[d2].file_range
                  IN (d1 # d2 /\ (r1[2] <= r2[1] \/ r2[2] <= r1[1])) =>
                        YieldedFiles(d1) \cap YieldedFiles(d2) = {}

\* C15 witness: two drives of disjoint ranges were assembled and walked, and
\* the second, whose ranges start past 0, has a folder with a file, both
\* inside the drive's ranges.
C15_Witness ==
    /\ walked # None /\ walked[1].raised = NoError
    /\ Len(assembled[1].drives) = 2
    /\ LET d1 == toc_defs[1].drive_defs[1]
           d2 == toc_defs[1].drive_defs[2]
           def == toc_defs[1].folder_defs[d2.folder_range[1] + 1]
       IN /\ d1.file_range[2] <= d2.file_range[1]
          /\ d2.file_range[1] > 0 /\ d2.folder_range[1] > 0
          /\ Inside(def.file_range, d2.file_range)
          /\ Inside(def.folder_range, d2.folder_range)
          /\ assembled[1].drives[2].folders[1].files # <<>>
          /\ YieldedFiles(1) # {} /\ YieldedFiles(2) # {}

\* C16: whenever a drive definition has its root_folder below the start of
\* its folder range, or at or above its end, the assembly raises an error and
\* produces no drive.
C16_RootOutsideIsFatal ==
    (assembled # None
       /\ \E d \in 1..Len(toc_defs[1].drive_defs) :
             LET drive_def == toc_defs[1].drive_defs[d]
             IN \/ drive_def.root_folder < drive_def.folder_range[1]
                \/ drive_def.root_folder >= drive_def.folder_range[2]) =>
        /\ assembled[1].raised # NoError
        /\ assembled[1].drives = <<>>

\* The definitions of the array defs at the global indices of range r.
InRange(defs, r) == {defs[g + 1] : g \in {h \in r[1]..(r[2] - 1) : h < Len(defs)}}

\* Every definition in the drive's ranges has its name in the name table.
Resolvable(t, drive_def) ==
    /\ \A def \in InRange(t.file_defs, drive_def.file_range) :
          def.name_pos \in DOMAIN t.names
    /\ \A def \in InRange(t.folder_defs, drive_def.folder_range) :
          def.name_pos \in DOMAIN t.names

\* The drive's root folder is a folder definition of its folder range.
RootHeld(t, drive_def) ==
    /\ drive_def.folder_range[1] <= drive_def.root_folder
    /\ drive_def.root_folder < drive_def.folder_range[2]
    /\ drive_def.root_folder < Len(t.folder_defs)

EmptyFolderRange(drive_def) ==
    drive_def.folder_range[1] = drive_def.folder_range[2]

\* C17: a drive definition whose folder range is empty is accepted and gives
\* a drive with no sub-folders and no files, as are an archive without
\* drives and a folder with an empty file range: when every drive has its
\* names in the table and either an empty folder range or its root folder
\* in its range, the assembly completes without error.
C17_EmptyAccepted ==
    (assembled # None
       /\ \A d \in 1..Len(toc_defs[1].drive_defs) :
             LET drive_def == toc_defs[1].drive_defs[d]
             IN /\ Resolvable(toc_defs[1], drive_def)
                /\ EmptyFolderRange(drive_def) \/ RootHeld(toc_defs[1], drive_def)) =>
        /\ assembled[1].raised = NoError
        /\ \A d \in 1..Len(assembled[1].drives) :
              EmptyFolderRange(toc_defs[1].drive_defs[d]) =>
                  /\ assembled[1].drives[d].sub_folders = <<>>
                  /\ assembled[1].drives[d].files = <<>>

\* An endpoint of the range r is outside the range outer.
EndpointOutside(r, outer) ==
    \E e \in {r[1], r[2]} : e < outer[1] \/ e > outer[2]

\* C18: the assembly fails with an error whenever a folder definition has a
\* file range or folder range with an endpoint outside its drive's range, or
\* a drive has a range with an endpoint outside the definition arrays: no
\* tree is built from clamped, wrapped or aliased indices.
C18_RangesChecked ==
    (assembled # None
       /\ \E d \in 1..Len(toc_defs[1].drive_defs) :
             LET t == toc_defs[1]
                 drive_def == t.drive_defs[d]
             IN \/ EndpointOutside(drive_def.file_range, <<0, Len(t.file_defs)>>)
                \/ EndpointOutside(drive_def.folder_range,
                                   <<0, Len(t.folder_defs)>>)
                \/ \E def \in InRange(t.folder_defs, drive_def.folder_range) :
                      \/ EndpointOutside(def.file_range, drive_def.file_range)
                      \/ EndpointOutside(def.folder_range,
                                         drive_def.folder_range)) =>
        assembled[1].raised # NoError

\* Some definition in the drive's ranges has no name in the name table.
NameMissing(t, drive_def) == ~Resolvable(t, drive_def)

\* Every file and folder of the drive has the name its definition points at.
NamesKept(t, drive_def, drive) ==
    /\ \A k \in 1..Len(drive.all_files) :
          LET def == t.file_defs[drive_def.file_range[1] + k]
          IN /\ def.name_pos \in DOMAIN t.names
             /\ drive.all_files[k].name = t.names[def.name_pos]
    /\ \A k \in 1..Len(drive.folders) :
          LET def == t.folder_defs[drive_def.folder_range[1] + k]
          IN /\ def.name_pos \in DOMAIN t.names
             /\ drive.folders[k].name = t.names[def.name_pos]

\* C19: when a file or folder definition inside a drive's ranges has a
\* name_pos that is no key of the name table, the assembly raises an error;
\* and every file and folder that is created has the name of the table at the
\* name_pos of its definition, never a substituted one.
C19_MissingNameRaises ==
    assembled # None =>
        /\ (\E d \in 1..Len(toc_defs[1].drive_defs) :
               NameMissing(toc_defs[1], toc_defs[1].drive_defs[d])) =>
              assembled[1].raised # NoError
        /\ \A d \in 1..Len(assembled[1].drives) :
              NamesKept(toc_defs[1], toc_defs[1].drive_defs[d],
                        assembled[1].drives[d])

\* A file definition of the first drive has no name, its folders have,
\* and the assembly stopped at the missing key.
C19_Witness ==
    /\ assembled # None
    /\ toc_defs[1].drive_defs # <<>>
    /\ \E def \in InRange(toc_defs[1].file_defs,
                          toc_defs[1].drive_defs[1].file_range) :
          def.name_pos \notin DOMAIN toc_defs[1].names
    /\ \A def \in InRange(toc_defs[1].folder_defs,
                          toc_defs[1].drive_defs[1].folder_range) :
          def.name_pos \in DOMAIN toc_defs[1].names
    /\ assembled[1].raised = KeyError

\* The offset of the i-th string in its name table: the sum of length + 1 of
\* the strings before it.
RECURSIVE NameOffset(_, _)
NameOffset(strings, i) ==
    IF i <= 1 THEN 0
    ELSE NameOffset(strings, i - 1) + Len(strings[i - 1]) + 1

\* C20: for a name table of N NUL-terminated strings and every chunk size of
\* at least 1, read_toc_names_as_count with count N returns N entries, the
\* i-th string at the key that is the sum of length + 1 of the strings
\* before it, wherever the chunks end.
C20_NamesByOffset ==
    (name_map # None /\ name_table[1].count = Len(name_table[1].strings)) =>
        LET strings == name_table[1].strings
        IN /\ name_map[1].raised = NoError
           /\ Cardinality(DOMAIN name_map[1].names) = Len(strings)
           /\ \A i \in 1..Len(strings) :
                 /\ NameOffset(strings, i) \in DOMAIN name_map[1].names
                 /\ name_map[1].names[NameOffset(strings, i)] = strings[i]

\* How many NUL-terminated strings the stream holds from header_pos on.
CompleteStrings(t) ==
    Cardinality({k \in (t.header_pos + 1)..Len(NameStream(t)) :
                    NameStream(t)[k] = NUL})

\* C21: read_toc_names_as_count comes to an end on every stream: when the
\* stream ends before count NUL-terminated strings were completed it raises,
\* it never returns a mapping of fewer entries than count, and with count 0
\* it returns the empty mapping.
C21_ShortTableRaises ==
    name_map # None =>
        /\ CompleteStrings(name_table[1]) < name_table[1].count =>
              name_map[1].raised = RanOutOfData
        /\ name_map[1].raised = NoError =>
              Cardinality(DOMAIN name_map[1].names) = name_table[1].count
        /\ name_table[1].count = 0 =>
              /\ name_map[1].raised = NoError
              /\ DOMAIN name_map[1].names = {}

\* A table of one string was read for two names, in chunks that the string
\* spans, and the read ran out of data.
C21_Witness ==
    /\ name_map # None
    /\ Len(name_table[1].strings) = 1
    /\ name_table[1].count = 2
    /\ Len(name_table[1].strings[1]) > name_table[1].buffer_size
    /\ name_map[1].raised = RanOutOfData

\* C22: for every version's archive header, a name shorter than the name
\* field decodes to the name without the field's NUL padding: the decoded
\* string has no NUL at its end.
C22_NameTrimmed ==
    (codec_out # None /\ codec_in[1].op = "header"
       /\ Len(codec_in[1].value.name) < NameFieldChars) =>
        /\ codec_out[1].raised = NoError
        /\ LET name == codec_out[1].header.name
           IN name = <<>> \/ name[Len(name)] # NUL

\* The storage value among the cells of a file definition of version v.
StorageCell(v, cells) ==
    CASE v = V2 -> cells[2] [] v = V9 -> cells[8] [] OTHER -> cells[7]

\* C23: the V2 serializer maps the wire values 0, 16, 32 to STORE,
\* BUFFER_COMPRESS, STREAM_COMPRESS and back, and unpacking a file definition
\* whose storage value is outside {0, 16, 32} (V2) or outside {0, 1, 2}
\* (V5, V7, V9) raises an error and yields no file definition.
C23_StorageValues ==
    codec_out # None =>
        LET v == codec_in[1].version
            storage == StorageCell(v, codec_in[1].value)
            wire(st) == CASE st = STORE -> 0 [] st = BUFFER_COMPRESS -> 16
                          [] OTHER -> 32
        IN /\ (codec_in[1].op = "cells" /\ v = V2 /\ storage \in {0, 16, 32}) =>
                 /\ codec_out[1].raised = NoError
                 /\ wire(codec_out[1].val.storage_type) = storage
           /\ (codec_in[1].op = "cells" /\ v = V2 /\ storage \notin {0, 16, 32}) =>
                 /\ codec_out[1].raised # NoError
                 /\ codec_out[1].val = <<>>
           /\ (codec_in[1].op = "cells" /\ v # V2 /\ storage \notin {0, 1, 2}) =>
                 /\ codec_out[1].raised # NoError
                 /\ codec_out[1].val = <<>>
           /\ (codec_in[1].op = "file" /\ v = V2) =>
                 /\ codec_out[1].packed.raised = NoError
                 /\ codec_out[1].packed.cells[2]
                      = wire(codec_in[1].value.storage_type)

\* A V2 file definition with the storage value 1 was unpacked and raised.
C23_Witness ==
    /\ codec_out # None
    /\ codec_in[1].op = "cells"
    /\ codec_in[1].version = V2
    /\ codec_in[1].value[2] = 1
    /\ codec_out[1].raised = KeyError

\* C24: for the V2, V5, V7 and V9 serializers and every file definition d,
\* unpacking the bytes that pack(d) wrote gives a definition equal to d.
C24_FileDefRoundTrip ==
    (codec_out # None /\ codec_in[1].op = "file") =>
        /\ codec_out[1].packed.raised = NoError
        /\ codec_out[1].unpacked.raised = NoError
        /\ codec_out[1].unpacked.val = codec_in[1].value

\* C25: the V9 decoder takes the storage type from the sixth field of the
\* record, the modification time from the seventh and the verification type
\* from the eighth.
C25_V9FieldOrder ==
    (codec_out # None /\ codec_in[1].op = "cells" /\ codec_in[1].version = V9
       /\ codec_out[1].raised = NoError) =>
        LET cells == codec_in[1].value
        IN /\ StorageType_of(cells[6]).ok
           /\ codec_out[1].val.storage_type = StorageType_of(cells[6]).val
           /\ codec_out[1].val.modified = datetime_fromtimestamp(cells[7])
           /\ codec_out[1].val.verification = VerificationType_of(cells[8])

\* The first string that was assigned to the code k.
FirstAssigned(assigned, k) ==
    assigned[CHOOSE i \in 1..Len(assigned) :
                /\ assigned[i][1] = k
                /\ \A j \in 1..(i - 1) : assigned[j][1] # k][2]

\* The last string that was assigned to the code k.
LastAssigned(assigned, k) ==
    assigned[CHOOSE i \in 1..Len(assigned) :
                /\ assigned[i][1] = k
                /\ \A j \in (i + 1)..Len(assigned) : assigned[j][1] # k][2]

\* C26: in a LangEnvironment with allow_replacement false, after any
\* assignments, read and read_stream calls, every text-code has the first
\* string that was assigned to it; assigning to a code that is present raises
\* ValueError and changes no entry that was there; with allow_replacement
\* true the latest assignment wins.
C26_FirstAssignmentKept ==
    (lang # None /\ lang_out # None) =>
        LET env == lang[1]
            call == lang_out[1]
        IN /\ \A i \in 1..Len(env.data) :
                 env.data[i][2] =
                    IF env.allow_replacement
                    THEN LastAssigned(env.assigned, env.data[i][1])
                    ELSE FirstAssigned(env.assigned, env.data[i][1])
           /\ ~env.allow_replacement =>
                 /\ \A i \in 1..Len(call.before) :
                       /\ i <= Len(env.data)
                       /\ env.data[i] = call.before[i]
                 /\ (call.op.name = "setitem"
                       /\ UcsDict_has(call.before, call.op.k)) =>
                       /\ call.raised = ValueError
                       /\ env.data = call.before
           /\ (env.allow_replacement /\ call.op.name = "setitem") =>
                 /\ call.raised = NoError
                 /\ UcsDict_get(env.data, call.op.k) = call.op.v

\* A stream whose second line has a code that is present was read into an
\* environment that does not replace: the first line's item was added, the
\* call raised, and the code kept its string.
C26_Witness ==
    /\ lang # None
    /\ lang_out # None
    /\ ~lang[1].allow_replacement
    /\ lang_out[1].op.name = "read_stream"
    /\ lang_out[1].raised = ValueError
    /\ Len(lang[1].data) = Len(lang_out[1].before) + 1
    /\ lang_out[1].before # <<>>

\* The stem of the file of the path: what follows the last "/", without its
\* extension and without one "b" at its end.
StemOf(file_path) ==
    LET file_name == posix_splitext(posix_split(file_path)[2])[1]
    IN IF file_name # <<>> /\ file_name[Len(file_name)] = "b"
       THEN SubSeq(file_name, 1, Len(file_name) - 1) ELSE file_name

\* C27: get_lang_string_for_file raises for no environment and no path, the
\* path of an empty file name included, and it returns the path unchanged
\* when the stem of the file, one "b" at its end dropped, is no integer, or
\* the environment has no string for that integer, or an empty one.
C27_ClipNameTotal ==
    lang_out # None =>
        LET file_path == lang_out[1].op.file_path
            stem == StemOf(file_path)
            digits == stem # <<>> /\ \A i \in 1..Len(stem) : stem[i] \in {"1", "2"}
        IN /\ lang_out[1].raised = NoError
           /\ (\/ ~digits
               \/ ~UcsDict_has(lang[1].data, int(stem).num)
               \/ UcsDict_get(lang[1].data, int(stem).num) = <<>>) =>
                 lang_out[1].val = file_path

\* The path of an empty file name was asked for in an environment that has
\* strings, and came back as it was.
C27_Witness ==
    /\ lang_out # None
    /\ lang[1].data # <<>>
    /\ lang_out[1].op.file_path = <<"1", "/">>
    /\ lang_out[1].raised = NoError
    /\ lang_out[1].val = <<"1", "/">>

ReadFirst(i) ==
    File_data(assemble_files(file_defs, FileNames, 0,
                             opts[1].decompress).files[i], content, 0)

\* C29: however the lazy reads of the files, the reads and validations of
\* the checksum helpers and the caller's seeks follow one another on the
\* shared stream, the data a file is materialized with are the bytes it gets
\* when it is read first, right after the decode; and a read raises only
\* where the first read raises.
C29_OrderIndependent ==
    (pc = "decoded" /\ opts[1].lazy) =>
        /\ \A i \in DOMAIN files :
              files[i].data # None =>
                 /\ ReadFirst(i).raised = NoError
                 /\ files[i].data = Some(ReadFirst(i).val)
        /\ (last.op = "data" /\ last.raised # NoError) =>
              ReadFirst(last.file).raised = last.raised

\* Both files were read, the second one first, after a checksum helper left
\* the cursor inside the second file's payload: it holds that whole payload.
C29_Witness ==
    /\ pc = "decoded" /\ opts[1].lazy
    /\ last.op = "data" /\ last.file = 1 /\ last.raised = NoError
    /\ last.touched
    /\ cursor \notin {0, StreamLen}
    /\ file_defs[2].data_pos < cursor
    /\ cursor < file_defs[2].data_pos + file_defs[2].length_in_archive
    /\ \A i \in DOMAIN files : files[i].data # None
    /\ Len(files[2].data[1]) = file_defs[2].length_in_archive

\* The sub_folders and files lists of a container of a drive.
OwnLists(drive, c) ==
    IF c = <<"drive">>
    THEN [sub_folders |-> drive.sub_folders, files |-> drive.files]
    ELSE [sub_folders |-> drive.folders[c[2]].sub_folders,
          files |-> drive.folders[c[2]].files]

\* The number of containers of a tree from folder k down, k included.
TreeSize(drive, k) ==
    1 + Cardinality(ReachFrom(drive, Places(drive.folders[k].sub_folders)))

\* The number of containers in the trees of the first n of the folders kids.
RECURSIVE TreeSizes(_, _, _)
TreeSizes(drive, kids, n) ==
    IF n = 0 THEN 0
    ELSE TreeSizes(drive, kids, n - 1) + TreeSize(drive, kids[n])

\* Pre-order of a drive's tree: the drive comes first, every container comes
\* once, and the j-th sub-folder of the container at place p comes right after
\* the trees of the sub-folders before it, the first at p + 1; every step
\* carries its container's own lists.
PreOrder(drive, st) ==
    /\ Len(st) = Cardinality(Containers(drive))
    /\ st[1].self = <<"drive">>
    /\ \A c \in Containers(drive) : \E p \in 1..Len(st) : st[p].self = c
    /\ \A p \in 1..Len(st) :
          LET own == OwnLists(drive, st[p].self)
          IN /\ st[p].sub_folders = own.sub_folders
             /\ st[p].files = own.files
             /\ \A j \in 1..Len(own.sub_folders) :
                   LET q == p + 1 + TreeSizes(drive, own.sub_folders, j - 1)
                   IN /\ q <= Len(st)
                      /\ st[q].self = <<"folder", own.sub_folders[j]>>

\* C30: for an archive whose drives are trees, Archive.walk() comes to its
\* end without an error and yields the drives in the order of archive.drives,
\* each drive first and then every folder below it once in pre-order, a
\* folder before its sub-folders and these in list order, each step with its
\* container's own sub_folders and files.
C30_WalkPreOrder ==
    (/\ walked # None
     /\ \A d \in 1..Len(assembled[1].drives) :
           IsTree(assembled[1].drives[d])) =>
        LET steps == walked[1].steps
        IN /\ walked[1].raised = NoError
           /\ \A j \in 1..(Len(steps) - 1) : steps[j].drive <= steps[j + 1].drive
           /\ \A d \in 1..Len(assembled[1].drives) :
                 PreOrder(assembled[1].drives[d],
                          SelectSeq(steps, LAMBDA step : step.drive = d))

\* Two drives that are trees were walked to the end, one of them with a
\* folder below a folder.
C30_Witness ==
    /\ walked # None
    /\ walked[1].raised = NoError
    /\ Len(assembled[1].drives) = 2
    /\ \A d \in 1..2 : IsTree(assembled[1].drives[d])
    /\ \E j \in 1..Len(walked[1].steps) :
          /\ walked[1].steps[j].self # <<"drive">>
          /\ walked[1].steps[j].sub_folders # <<>>

====
